---- MODULE Spec2Model ----
(***************************************************************************)
(* Polling / retry orchestration of the Instagram parser front end.        *)
(*                                                                         *)
(* The repository holds several revisions of the App component:            *)
(*   src/unnamed/part_001  submission, image poller, OCR poller, manual    *)
(*                         reloads                      (SpecOcr)          *)
(*   src/unnamed/part_000  submission with retries, image poller, status   *)
(*                         monitor, manual image reload (SpecStatus)       *)
(*   src/mythic_frontend/src/App.tsx                                       *)
(*                         submission, per-post comment loads              *)
(*                                                      (SpecComments)     *)
(*   src/mythic_frontend/src/CommentsScraper.tsx                           *)
(*                         the comments scraper form    (SpecValidation,   *)
(*                         beside part_000)                                *)
(* JavaScript runs each handler to its next await without interruption, so *)
(* one action is the code between two suspension points: a fetch being     *)
(* issued and answered, or a timer being set and firing.                   *)
(***************************************************************************)
EXTENDS Integers, Sequences, FiniteSets, TLC

(* ------------------------------ bounds -------------------------------- *)
\* runs the backend creates in one behaviour (successful submissions)
MaxRuns == 2
\* continuations of earlier runs still outstanding when the user resubmits
MaxPending == 1
\* runs the backend creates in one behaviour of the revision with the status monitor,
\* and of part_001 where termination is checked
MaxMonitoredRuns == 1
\* length of the image list the backend returns once images are ready
NumImages == 12
\* get-comments calls issued for one post in one behaviour
MaxCommentLoads == 2
\* largest attempt number a backoff delay is computed for
MaxBackoffAttempt == 12

(* ------------------------- program constants -------------------------- *)
ImagesMaxAttempts == 8
OcrMaxAttempts == 6
ImagesBaseDelay == 5000
OcrBaseDelay == 10000
StatusMaxAttempts == 20
StatusDelay == 10000
SubmitMaxAttempts == 3
SubmitBaseDelay == 1000
SubmitDelayCap == 10000
DefaultPostsPerPage == 15

(* ------------------------------ state --------------------------------- *)
VARIABLES
    loading,        \* useState(false)
    result,         \* useState<InstagramData | null>(null)
    error,          \* useState<string | null>(null)
    images,         \* useState<string[]>([])
    imagesLoading,  \* useState(false)
    ocrData,        \* useState<OCRData | null>(null)
    ocrLoading,     \* useState(false)
    ocrAttempt,     \* useState(0)
    scrapeStatus,   \* useState<ScrapeStatus | null>(null)
    request,        \* the start-scrape call of handleSubmit, while it is awaited
    chains,         \* the retry chains: one record per call chain of a *WithRetry function
    loads,          \* loads[r]: loadImages(r) calls whose fetch is in flight
    ocrLoads,       \* ocrLoads[r]: loadOCRResults(r) calls whose fetch is in flight
    runs,           \* run ids the backend has handed out so far
    ev,             \* the step just taken: which handler ran, on which chain, how it ended
    postComments,   \* App.tsx: useState<PostComments>({})
    commentFetches, \* App.tsx: commentFetches[s]: scrape-comments fetches of post s in flight
    commentCalls,   \* App.tsx: commentCalls[s]: scrape-comments fetches issued for post s
    cs_loading,     \* CommentsScraper.tsx: useState(false)
    cs_result,      \* CommentsScraper.tsx: useState<CommentsResponse | null>(null)
    cs_error,       \* CommentsScraper.tsx: useState<string | null>(null)
    cs_request,     \* CommentsScraper.tsx: the scrape-comments call of handleSubmit
    posts,          \* result.data: the posts of the result on display
    searchPostsText, \* useState('')
    postsPerPage,   \* useState(15)
    currentPage,    \* useState(1)
    calc            \* the pure function just evaluated: its arguments and its value

store == <<loading, result, error, images, imagesLoading, ocrData, ocrLoading, ocrAttempt,
           scrapeStatus>>
\* the state of the App component and of its continuations
appVars == <<loading, result, error, images, imagesLoading, ocrData, ocrLoading, ocrAttempt,
             scrapeStatus, request, chains, loads, ocrLoads, runs>>
\* the per-post comment state of App.tsx
commentVars == <<postComments, commentFetches, commentCalls>>
\* the state of the CommentsScraper component
scraperVars == <<cs_loading, cs_result, cs_error, cs_request>>
\* the state of the caption list: what is listed, searched and paged
viewVars == <<posts, searchPostsText, postsPerPage, currentPage>>
vars == <<appVars, ev, commentVars, scraperVars, viewVars, calc>>

RunIds == 1..(MaxRuns + 1)

(* ------------------------------ values -------------------------------- *)
NoError == "null"
ValidationError == "Please enter username"
HttpError == "Error status"
NetworkError == "Failed to fetch"

\* result: null, or the response body of start-scrape; runId 0 is a body without runId
NoResult == [set |-> FALSE, runId |-> 0]
Data(r) == [set |-> TRUE, runId |-> r]

\* ocrData: null, undefined (a body without ocr_results) or the ocr_results object,
\* a set of entries keyed by filename
OcrNull == [kind |-> "null", entries |-> {}]
OcrUndefined == [kind |-> "undefined", entries |-> {}]
OcrObject(es) == [kind |-> "object", entries |-> es]
Truthy(o) == o.kind = "object"

OcrEntry(f, t) == [file |-> f, text |-> t, confidence |-> 90, has_text |-> TRUE]

Files(n) == [i \in 1..n |-> i]

\* what a fetch can come back with: a 2xx body, a non-2xx status, or a rejection
Throw == [kind |-> "throw", total_images |-> 0, images |-> <<>>]
NotOk == [kind |-> "notok", total_images |-> 0, images |-> <<>>]
ImagesBody(t, l) == [kind |-> "ok", total_images |-> t, images |-> l]
ImageResponses ==
    {Throw, NotOk} \cup {ImagesBody(t, l) : t \in {0, NumImages}, l \in {<<>>, Files(NumImages)}}

OcrThrow == [kind |-> "throw", ocr_results |-> OcrUndefined]
OcrNotOk == [kind |-> "notok", ocr_results |-> OcrUndefined]
OcrBody(o) == [kind |-> "ok", ocr_results |-> o]
OcrResponses ==
    {OcrThrow, OcrNotOk} \cup
    {OcrBody(o) : o \in {OcrUndefined, OcrObject({}), OcrObject({OcrEntry("001.jpg", "A")})}}

\* scrapeStatus: null, or the body of scrape-status
\* details.images_error, which the backend fills in when status = error
BackendImagesError == "images_error of the backend"
ImagesErrorOf(st) == IF st = "error" THEN BackendImagesError ELSE ""
NoStatus == [set |-> FALSE, run_id |-> 0, status |-> "null", images_count |-> 0,
             images_error |-> ""]
Status(r, st, n) == [set |-> TRUE, run_id |-> r, status |-> st, images_count |-> n,
                     images_error |-> ImagesErrorOf(st)]

StatusThrow == [kind |-> "throw", status |-> "null", images_count |-> 0]
StatusNotOk == [kind |-> "notok", status |-> "null", images_count |-> 0]
StatusBody(st, n) == [kind |-> "ok", status |-> st, images_count |-> n]
StatusResponses ==
    {StatusThrow, StatusNotOk}
    \cup {StatusBody(st, 0) : st \in {"pending", "data_ready", "images_loading", "error"}}
    \cup {StatusBody("completed", n) : n \in {0, NumImages}}

SubmitResponses == {"ok", "ok_without_runId", "notok", "throw"}
\* part_000 also aborts the request after 120 s
RetrySubmitResponses == SubmitResponses \cup {"timeout"}
TimeoutError == "Request timed out"

\* a field of a JSON object: absent, or present with a value
Absent == [set |-> FALSE, v |-> <<>>]
AbsentNumber == [set |-> FALSE, v |-> 0]
AbsentFlag == [set |-> FALSE, v |-> FALSE]
Str(s) == [set |-> TRUE, v |-> s]
Number(n) == [set |-> TRUE, v |-> n]
Flag(b) == [set |-> TRUE, v |-> b]
List(l) == [set |-> TRUE, v |-> l]

\* App.tsx: the posts on display, by shortcode
ShortCodes == {"A", "B"}

\* postComments[shortCode]: undefined, or {loading, comments, error}
NoEntry == [set |-> FALSE, loading |-> FALSE, comments |-> <<>>, error |-> NoError]
Entry(l, cs, e) == [set |-> TRUE, loading |-> l, comments |-> cs, error |-> e]

CommentsDefaultError == "Comments failed to load"

\* what scrape-comments can come back with: a 2xx body with or without a comments
\* list, a non-2xx status, or a rejection whose message may be empty
CommentsBody(cs) == [kind |-> "ok", listed |-> TRUE, comments |-> cs, message |-> ""]
CommentsBodyWithoutList == [kind |-> "ok", listed |-> FALSE, comments |-> <<>>, message |-> ""]
CommentsNotOk == [kind |-> "notok", listed |-> FALSE, comments |-> <<>>, message |-> HttpError]
CommentsThrow(m) == [kind |-> "throw", listed |-> FALSE, comments |-> <<>>, message |-> m]
CommentResponses ==
    {CommentsBody(<<>>), CommentsBody(<<"c1", "c2">>), CommentsBodyWithoutList, CommentsNotOk,
     CommentsThrow(NetworkError), CommentsThrow("")}

\* CommentsScraper.tsx: the post URLs typed into the form, as character sequences
PostUrlInputs == {<<>>, <<" ">>, <<" ", " ">>, <<"u">>, <<" ", "u">>}
ScraperValidationError == "Enter post URLs"
ScraperDetailError == "detail"
\* the answers of scrape-comments to the form: 2xx, non-2xx with or without a detail
\* field, non-2xx whose body is no JSON, a rejection
ScraperResponses == {"ok", "notok_detail", "notok", "notok_nojson", "throw"}

(* --------------------------- user input -------------------------------- *)
\* a username is a sequence of characters
Usernames == {<<>>, <<" ">>, <<"@">>, <<"a">>, <<"@", "a">>, <<" ", "a", " ">>}

RECURSIVE TrimLeft(_)
TrimLeft(s) == IF s # <<>> /\ Head(s) = " " THEN TrimLeft(Tail(s)) ELSE s

RECURSIVE TrimRight(_)
TrimRight(s) ==
    IF s # <<>> /\ s[Len(s)] = " " THEN TrimRight(SubSeq(s, 1, Len(s) - 1)) ELSE s

\* a validation that does not trim
TrimNothing(s) == s

\* String.prototype.trim
Trim(s) == TrimRight(TrimLeft(s))

\* username.replace('@', ''): the first '@' only
RECURSIVE RemoveFirstAt(_)
RemoveFirstAt(s) ==
    IF s = <<>> THEN <<>>
    ELSE IF Head(s) = "@" THEN Tail(s)
    ELSE <<Head(s)>> \o RemoveFirstAt(Tail(s))

cleanUsername(u) == Trim(RemoveFirstAt(u))

(* ---------------------------- retry chains ----------------------------- *)
Idle == [st |-> "idle", attempt |-> 0, username |-> <<>>, delays |-> <<>>]

Live(c) == c.st \in {"fetch", "timer"}

\* the first call of a *WithRetry function: attempt = 1 and its fetch is issued
StartChain(kind, run) ==
    [kind |-> kind, run |-> run, attempt |-> 1, st |-> "fetch", calls |-> 1, delays |-> <<>>]

\* setTimeout(() => f(runId, attempt + 1, maxAttempts), delay)
Schedule(c, delay) == [c EXCEPT !.st = "timer", !.delays = Append(@, delay)]

\* the timer fires: f(runId, attempt + 1, maxAttempts) runs and issues its fetch
Fire(c) == [c EXCEPT !.st = "fetch", !.attempt = @ + 1, !.calls = @ + 1]

Replace(c, d) == (chains \ {c}) \cup {d}

\* a call of loadImages / loadOCRResults, which has no attempt counter
Call(kind, run) ==
    [kind |-> kind, run |-> run, attempt |-> 0, st |-> "fetch", calls |-> 1, delays |-> <<>>]
NoChain == Call("none", 0)

\* the record of a step: op names the branch taken, c the chain as the step found it
\* (after the step for "fired" and "scheduled"), got what the step was given or printed:
\* the image list of a 2xx body, the text typed into a form, the post and answer of a
\* comment load, the console.log of a poller that stops without success
Event(op, c, got) == [op |-> op, c |-> c, got |-> got]

\* the bound test off by one
CanRetryOffByOne(attempt, maxAttempts) == attempt <= maxAttempts

\* attempt < maxAttempts
CanRetry(attempt, maxAttempts) == attempt < maxAttempts

\* a backoff that does not grow with the attempt
ImagesDelayFixed(attempt) == ImagesBaseDelay
OcrDelayFixed(attempt) == OcrBaseDelay

\* const delay = attempt * 5000
ImagesDelay(attempt) == attempt * ImagesBaseDelay

\* an OCR backoff that stops growing after three attempts
OcrDelayLevelsOff(attempt) == IF attempt <= 3 THEN attempt * OcrBaseDelay ELSE 3 * OcrBaseDelay

\* const delay = attempt * 10000
OcrDelay(attempt) == attempt * OcrBaseDelay

\* the branch loadImagesWithRetry takes on an answer (lines 151-180)
ImagesOutcome(resp, attempt) ==
    IF resp.kind = "ok" /\ resp.total_images > 0 THEN "succeeded"
    ELSE IF CanRetry(attempt, ImagesMaxAttempts) THEN "scheduled"
    ELSE IF resp.kind = "ok" THEN "exhausted"
    ELSE "failed"

\* the branch loadOCRResultsWithRetry takes on an answer (lines 194-221)
OcrOutcome(resp, attempt) ==
    IF resp.kind = "ok" THEN "succeeded"
    ELSE IF CanRetry(attempt, OcrMaxAttempts) THEN "scheduled"
    ELSE IF resp.kind = "notok" THEN "exhausted"
    ELSE "failed"

\* the monitor without its return on status = error
StatusOutcomeRetriesError(resp, attempt) ==
    IF resp.kind = "ok" /\ resp.status = "completed"
    THEN (IF resp.images_count > 0 THEN "completed" ELSE "completed_empty")
    ELSE IF CanRetry(attempt, StatusMaxAttempts) THEN "scheduled"
    ELSE IF resp.kind = "ok" THEN "exhausted"
    ELSE "failed"

\* a monitor that calls loadImages on completed whatever the image count
StatusOutcomeIgnoresCount(resp, attempt) ==
    IF resp.kind = "ok" /\ resp.status = "completed" THEN "completed"
    ELSE IF resp.kind = "ok" /\ resp.status = "error" THEN "error"
    ELSE IF CanRetry(attempt, StatusMaxAttempts) THEN "scheduled"
    ELSE IF resp.kind = "ok" THEN "exhausted"
    ELSE "failed"

\* the branch checkScrapeStatus takes on an answer (lines 179-214)
StatusOutcome(resp, attempt) ==
    IF resp.kind = "ok" /\ resp.status = "completed"
    THEN (IF resp.images_count > 0 THEN "completed" ELSE "completed_empty")
    ELSE IF resp.kind = "ok" /\ resp.status = "error" THEN "error"
    ELSE IF CanRetry(attempt, StatusMaxAttempts) THEN "scheduled"
    ELSE IF resp.kind = "ok" THEN "exhausted"
    ELSE "failed"

\* what identifies the fault of an answer: err.message of a rejection, the status
\* of a non-2xx response; nothing for a 2xx body
FaultOf(resp) ==
    CASE resp.kind = "throw" -> NetworkError
      [] resp.kind = "notok" -> HttpError
      [] OTHER -> NoError

\* console.log of loadImagesWithRetry on its last attempt (part_000 lines 261, 268, 276):
\* only the catch branch prints the fault
ImagesGiveUpLog(resp) ==
    CASE resp.kind = "throw" -> <<"Image loading error", FaultOf(resp)>>
      [] resp.kind = "notok" -> <<"Images unavailable after all attempts">>
      [] OTHER -> <<"Images not loaded after all attempts">>

\* console.log of loadOCRResultsWithRetry on its last attempt (part_001 lines 209, 218)
OcrGiveUpLog(resp) ==
    CASE resp.kind = "throw" -> <<"OCR results unavailable", FaultOf(resp)>>
      [] OTHER -> <<"OCR results unavailable after all attempts">>

\* console.log of checkScrapeStatus when it stops without calling loadImages (part_000
\* lines 185, 192, 202, 213); a non-2xx answer on the last attempt falls through the else-if of
\* line 204 and prints nothing
StatusGiveUpLog(resp) ==
    CASE resp.kind = "throw" -> <<"Status check error", FaultOf(resp)>>
      [] resp.kind = "notok" -> <<>>
      [] resp.status = "error" -> <<"Image loading failed", BackendImagesError>>
      [] resp.status = "completed" -> <<"Scraping finished">>
      [] OTHER -> <<"Maximum number of status checks exceeded">>

\* no pure function has been evaluated
NoCalc == [fn |-> "none"]

\* a monitor whose interval grows with the attempt
StatusPollDelayLinear(attempt) == attempt * StatusDelay

\* const delay = 10000
StatusPollDelay(attempt) == StatusDelay

RECURSIVE Pow2(_)
Pow2(n) == IF n <= 0 THEN 1 ELSE 2 * Pow2(n - 1)

Min(a, b) == IF a < b THEN a ELSE b

\* a submission backoff without Math.min
SubmitDelayUncapped(attempt) == SubmitBaseDelay * Pow2(attempt - 1)

\* a submission backoff that does not grow
SubmitDelayFixed(attempt) == SubmitBaseDelay

\* the message of a failed start-scrape attempt, part_000 lines 116-135
SubmitError(resp) ==
    CASE resp = "notok" -> HttpError
      [] resp = "timeout" -> TimeoutError
      [] OTHER -> NetworkError

\* const delay = Math.min(1000 * Math.pow(2, attempt - 1), 10000)
SubmitDelay(attempt) == Min(SubmitBaseDelay * Pow2(attempt - 1), SubmitDelayCap)

RECURSIVE SumOver(_, _)
SumOver(f, S) ==
    IF S = {} THEN 0
    ELSE LET x == CHOOSE y \in S : TRUE IN f[x] + SumOver(f, S \ {x})

\* continuations (fetches in flight and timers) outstanding in the page
Outstanding ==
    Cardinality({c \in chains : Live(c)}) + SumOver(loads, RunIds) + SumOver(ocrLoads, RunIds)

(* ============================ part_001 ================================= *)
(* handleSubmit, lines 77-88: validation, then the start-scrape fetch.     *)
(* The submit button and the input are disabled while loading.             *)
handleSubmit(u) ==
    /\ ~loading
    /\ request.st = "idle"
    /\ IF Trim(u) = <<>>
       THEN /\ error' = ValidationError
            /\ ev' = Event("invalid", NoChain, u)
            /\ UNCHANGED <<loading, result, request>>
       ELSE /\ runs < MaxRuns
            /\ Outstanding <= MaxPending
            /\ loading' = TRUE
            /\ error' = NoError
            /\ result' = NoResult
            /\ request' = [st |-> "fetch", attempt |-> 1, username |-> cleanUsername(u),
                           delays |-> <<>>]
            /\ ev' = Event("submit", NoChain, u)
    /\ UNCHANGED <<scrapeStatus, images, imagesLoading, ocrData, ocrLoading, ocrAttempt,
                   chains, loads, ocrLoads, runs>>

(* handleSubmit, lines 99-117: the answer of start-scrape. With a runId   *)
(* both pollers run to their first await inside this step.                 *)
handleSubmit_response(resp) ==
    /\ request.st = "fetch"
    /\ request' = Idle
    /\ loading' = FALSE
    /\ CASE resp = "ok" ->
              /\ result' = Data(runs + 1)
              /\ runs' = runs + 1
              /\ chains' = chains \cup {StartChain("images", runs + 1), StartChain("ocr", runs + 1)}
              /\ imagesLoading' = TRUE
              /\ ocrLoading' = TRUE
              /\ ocrAttempt' = 1
              /\ ev' = Event("started", Call("run", runs + 1), <<>>)
              /\ UNCHANGED error
         [] resp = "ok_without_runId" ->
              /\ result' = Data(0)
              /\ ev' = Event("answered", NoChain, <<>>)
              /\ UNCHANGED <<error, runs, chains, imagesLoading, ocrLoading, ocrAttempt>>
         [] OTHER ->
              /\ error' = (IF resp = "notok" THEN HttpError ELSE NetworkError)
              /\ ev' = Event("rejected", NoChain, <<>>)
              /\ UNCHANGED <<result, runs, chains, imagesLoading, ocrLoading, ocrAttempt>>
    /\ UNCHANGED <<scrapeStatus, images, ocrData, loads, ocrLoads>>

\* a last attempt that reports its failure in the error box
loadImagesWithRetry_giveUpSetsError(c, resp) ==
    /\ imagesLoading' = FALSE
    /\ error' = NetworkError
    /\ chains' = chains \ {c}
    /\ ev' = Event(ImagesOutcome(resp, c.attempt), c, <<>>)
    /\ UNCHANGED <<images, scrapeStatus, loading, result, ocrData, ocrLoading, ocrAttempt,
                   request, loads, ocrLoads, runs>>

\* a last attempt that also drops what the OCR phase stored
loadImagesWithRetry_giveUpClearsOcr(c, resp) ==
    /\ imagesLoading' = FALSE
    /\ ocrData' = OcrNull
    /\ chains' = chains \ {c}
    /\ ev' = Event(ImagesOutcome(resp, c.attempt), c, <<>>)
    /\ UNCHANGED <<images, scrapeStatus, loading, result, error, ocrLoading, ocrAttempt,
                   request, loads, ocrLoads, runs>>

\* a last attempt that forgets setImagesLoading(false)
loadImagesWithRetry_giveUpKeepsLoading(c, resp) ==
    /\ chains' = chains \ {c}
    /\ ev' = Event(ImagesOutcome(resp, c.attempt), c, <<>>)
    /\ UNCHANGED <<images, imagesLoading, scrapeStatus, loading, result, error, ocrData,
                   ocrLoading, ocrAttempt, request, loads, ocrLoads, runs>>

(* loadImagesWithRetry, lines 162-165, 169-172, 177-180: the last attempt  *)
(* has not brought images either                                           *)
loadImagesWithRetry_giveUp(c, resp) ==
    /\ imagesLoading' = FALSE
    /\ chains' = chains \ {c}
    /\ ev' = Event(ImagesOutcome(resp, c.attempt), c, ImagesGiveUpLog(resp))
    /\ UNCHANGED <<images, scrapeStatus, loading, result, error, ocrData, ocrLoading,
                   ocrAttempt, request, loads, ocrLoads, runs>>

(* loadImagesWithRetry, lines 151-181: the answer of get-images            *)
loadImagesWithRetry_response(c, resp) ==
    /\ c \in chains /\ c.kind = "images" /\ c.st = "fetch"
    /\ CASE ImagesOutcome(resp, c.attempt) = "succeeded" ->
              /\ images' = resp.images
              /\ imagesLoading' = FALSE
              /\ chains' = chains \ {c}
              /\ ev' = Event("succeeded", c, resp.images)
              /\ UNCHANGED <<scrapeStatus, loading, result, error, ocrData, ocrLoading,
                             ocrAttempt, request, loads, ocrLoads, runs>>
         [] ImagesOutcome(resp, c.attempt) = "scheduled" ->
              /\ chains' = Replace(c, Schedule(c, ImagesDelay(c.attempt)))
              /\ ev' = Event("scheduled", Schedule(c, ImagesDelay(c.attempt)), <<>>)
              /\ UNCHANGED <<images, imagesLoading>>
              /\ UNCHANGED <<scrapeStatus, loading, result, error, ocrData, ocrLoading,
                             ocrAttempt, request, loads, ocrLoads, runs>>
         [] OTHER ->
              loadImagesWithRetry_giveUp(c, resp)

(* loadImagesWithRetry, lines 143-149: the timer fires, attempt + 1 starts *)
loadImagesWithRetry_timer(c) ==
    /\ c \in chains /\ c.kind = "images" /\ c.st = "timer"
    /\ imagesLoading' = TRUE
    /\ chains' = Replace(c, Fire(c))
    /\ ev' = Event("fired", Fire(c), <<>>)
    /\ UNCHANGED <<scrapeStatus, loading, result, error, images, ocrData, ocrLoading, ocrAttempt,
                   request, loads, ocrLoads, runs>>

\* an OCR success handler that also resets the image list
loadOCRResultsWithRetry_okClearsImages(c, resp) ==
    /\ ocrData' = resp.ocr_results
    /\ ocrLoading' = FALSE
    /\ ocrAttempt' = 0
    /\ images' = <<>>
    /\ imagesLoading' = TRUE
    /\ loads' = [loads EXCEPT ![c.run] = @ + 1]
    /\ chains' = chains \ {c}
    /\ ev' = Event("succeeded", c, <<>>)
    /\ UNCHANGED <<scrapeStatus, loading, result, error, request, ocrLoads, runs>>

(* loadOCRResultsWithRetry, lines 194-202: a 2xx answer is stored, and     *)
(* loadImages(runId) is called, which runs to its fetch (lines 121-126)    *)
loadOCRResultsWithRetry_ok(c, resp) ==
    /\ ocrData' = resp.ocr_results
    /\ ocrLoading' = FALSE
    /\ ocrAttempt' = 0
    /\ imagesLoading' = TRUE
    /\ loads' = [loads EXCEPT ![c.run] = @ + 1]
    /\ chains' = chains \ {c}
    /\ ev' = Event("succeeded", c, <<>>)
    /\ UNCHANGED <<scrapeStatus, loading, result, error, images, request, ocrLoads, runs>>

(* loadOCRResultsWithRetry, lines 194-222: the answer of get-ocr-results   *)
loadOCRResultsWithRetry_response(c, resp) ==
    /\ c \in chains /\ c.kind = "ocr" /\ c.st = "fetch"
    /\ CASE OcrOutcome(resp, c.attempt) = "succeeded" ->
              loadOCRResultsWithRetry_ok(c, resp)
         [] OcrOutcome(resp, c.attempt) = "scheduled" ->
              /\ chains' = Replace(c, Schedule(c, OcrDelay(c.attempt)))
              /\ ev' = Event("scheduled", Schedule(c, OcrDelay(c.attempt)), <<>>)
              /\ UNCHANGED <<ocrData, ocrLoading, ocrAttempt, imagesLoading, loads>>
              /\ UNCHANGED <<scrapeStatus, loading, result, error, images, request,
                             ocrLoads, runs>>
         [] OTHER ->
              /\ ocrLoading' = FALSE
              /\ ocrAttempt' = 0
              /\ chains' = chains \ {c}
              /\ ev' = Event(OcrOutcome(resp, c.attempt), c, OcrGiveUpLog(resp))
              /\ UNCHANGED <<ocrData, imagesLoading, loads>>
              /\ UNCHANGED <<scrapeStatus, loading, result, error, images, request,
                             ocrLoads, runs>>

(* loadOCRResultsWithRetry, lines 185-192: the timer fires                 *)
loadOCRResultsWithRetry_timer(c) ==
    /\ c \in chains /\ c.kind = "ocr" /\ c.st = "timer"
    /\ ocrLoading' = TRUE
    /\ ocrAttempt' = c.attempt + 1
    /\ chains' = Replace(c, Fire(c))
    /\ ev' = Event("fired", Fire(c), <<>>)
    /\ UNCHANGED <<scrapeStatus, loading, result, error, images, imagesLoading, ocrData,
                   request, loads, ocrLoads, runs>>

(* the 'load images' button, lines 425-427, and loadImages to its fetch,   *)
(* lines 121-126                                                           *)
loadImages_click ==
    /\ result.set /\ result.runId # 0
    /\ ~imagesLoading /\ images = <<>>
    /\ imagesLoading' = TRUE
    /\ loads' = [loads EXCEPT ![result.runId] = @ + 1]
    /\ ev' = Event("click", Call("images", result.runId), <<>>)
    /\ UNCHANGED <<scrapeStatus, loading, result, error, images, ocrData, ocrLoading, ocrAttempt,
                   request, chains, ocrLoads, runs>>

(* loadImages, lines 128-139: the answer of get-images                     *)
loadImages_response(r, resp) ==
    /\ loads[r] > 0
    /\ loads' = [loads EXCEPT ![r] = @ - 1]
    /\ images' = (IF resp.kind = "ok" THEN resp.images ELSE images)
    /\ imagesLoading' = FALSE
    /\ ev' = Event(IF resp.kind = "ok" THEN "loaded" ELSE "notloaded", Call("images", r),
                   IF resp.kind = "ok" THEN resp.images ELSE <<>>)
    /\ UNCHANGED <<scrapeStatus, loading, result, error, ocrData, ocrLoading, ocrAttempt,
                   request, chains, ocrLoads, runs>>

(* the 'load OCR' button, lines 441-443, and loadOCRResults to its fetch,  *)
(* lines 226-231                                                           *)
loadOCRResults_click ==
    /\ result.set /\ result.runId # 0
    /\ ~Truthy(ocrData) /\ ~ocrLoading
    /\ ocrLoading' = TRUE
    /\ ocrLoads' = [ocrLoads EXCEPT ![result.runId] = @ + 1]
    /\ ev' = Event("click", Call("ocr", result.runId), <<>>)
    /\ UNCHANGED <<scrapeStatus, loading, result, error, images, imagesLoading, ocrData, ocrAttempt,
                   request, chains, loads, runs>>

(* loadOCRResults, lines 233-244: the answer of get-ocr-results            *)
loadOCRResults_response(r, resp) ==
    /\ ocrLoads[r] > 0
    /\ ocrLoads' = [ocrLoads EXCEPT ![r] = @ - 1]
    /\ ocrData' = (IF resp.kind = "ok" THEN resp.ocr_results ELSE ocrData)
    /\ ocrLoading' = FALSE
    /\ ev' = Event(IF resp.kind = "ok" THEN "loaded" ELSE "notloaded", Call("ocr", r), <<>>)
    /\ UNCHANGED <<scrapeStatus, loading, result, error, images, imagesLoading, ocrAttempt,
                   request, chains, loads, runs>>

InitPage ==
    /\ loading = FALSE
    /\ result = NoResult
    /\ error = NoError
    /\ images = <<>>
    /\ imagesLoading = FALSE
    /\ ocrData = OcrNull
    /\ ocrLoading = FALSE
    /\ ocrAttempt = 0
    /\ scrapeStatus = NoStatus
    /\ request = Idle
    /\ chains = {}
    /\ loads = [r \in RunIds |-> 0]
    /\ ocrLoads = [r \in RunIds |-> 0]
    /\ runs = 0
    /\ ev = Event("init", NoChain, <<>>)
    /\ postComments = [s \in ShortCodes |-> NoEntry]
    /\ commentFetches = [s \in ShortCodes |-> 0]
    /\ commentCalls = [s \in ShortCodes |-> 0]
    /\ cs_loading = FALSE
    /\ cs_result = FALSE
    /\ cs_error = NoError
    /\ cs_request = "idle"

\* the caption list after construction: no result, page 1 of 15 per page, no search
InitView ==
    /\ posts = Absent
    /\ searchPostsText = <<>>
    /\ postsPerPage = DefaultPostsPerPage
    /\ currentPage = 1

Init == InitPage /\ InitView /\ calc = NoCalc

(* ========================= the backoff delays ========================= *)
BackoffVariants == {"images", "ocr", "submit"}

\* the 'const delay = ...' of the three retrying functions
Backoff(variant, attempt) ==
    CASE variant = "images" -> ImagesDelay(attempt)
      [] variant = "ocr" -> OcrDelay(attempt)
      [] OTHER -> SubmitDelay(attempt)

\* a retrying function is entered with some attempt number; no delay computed yet
InitBackoff ==
    /\ InitPage /\ InitView
    /\ calc \in {[fn |-> "delay", variant |-> v, from |-> n, attempt |-> n, delays |-> <<>>] :
                    v \in BackoffVariants, n \in 1..MaxBackoffAttempt}

\* the delay of the attempt the function was entered with
delay_first ==
    /\ calc.fn = "delay" /\ calc.delays = <<>>
    /\ calc' = [calc EXCEPT !.delays = <<Backoff(calc.variant, calc.attempt)>>]
    /\ UNCHANGED <<appVars, ev, commentVars, scraperVars, viewVars>>

\* f(runId, attempt + 1, maxAttempts) computes the delay of the next attempt
delay_next ==
    /\ calc.fn = "delay" /\ calc.delays # <<>>
    /\ calc.attempt < MaxBackoffAttempt
    /\ calc' = [calc EXCEPT !.attempt = @ + 1,
                            !.delays = Append(@, Backoff(calc.variant, calc.attempt + 1))]
    /\ UNCHANGED <<appVars, ev, commentVars, scraperVars, viewVars>>

NextBackoff == delay_first \/ delay_next

SpecBackoff == InitBackoff /\ [][NextBackoff]_vars

(* ========================== the caption list ========================== *)
(* The functions the page is rendered with: part_001 lines 249-319,       *)
(* part_000 lines 283-325, App.tsx lines 146-201.                          *)

\* field || '', field || 0, field || false: the default replaces every falsy value
OrEmpty(f) == IF f.set /\ f.v # <<>> THEN f.v ELSE <<>>
OrZero(f) == IF f.set /\ f.v # 0 THEN f.v ELSE 0
OrFalse(f) == f.set /\ f.v

\* an element of result.data (data: any[]) with no field at all
Obj ==
    [caption |-> Absent, timestamp |-> Absent, shortCode |-> Absent, url |-> Absent,
     likesCount |-> AbsentNumber, commentsCount |-> AbsentNumber,
     ownerUsername |-> Absent, ownerFullName |-> Absent, ownerIsVerified |-> AbsentFlag,
     ownerProfilePicUrl |-> Absent,
     username |-> Absent, fullName |-> Absent, biography |-> Absent,
     followersCount |-> AbsentNumber, followsCount |-> AbsentNumber,
     postsCount |-> AbsentNumber, verified |-> AbsentFlag, private |-> AbsentFlag,
     profilePicUrl |-> Absent, latestPosts |-> Absent]

\* String.prototype.toLowerCase over the letters in use
LowerChar(ch) == CASE ch = "A" -> "a" [] ch = "B" -> "b" [] OTHER -> ch
ToLowerCase(s) == [i \in DOMAIN s |-> LowerChar(s[i])]

\* String.prototype.indexOf, 1-based; 0 when sub does not occur
IndexOf(s, sub) ==
    LET at == {i \in 1..(Len(s) - Len(sub) + 1) : SubSeq(s, i, i + Len(sub) - 1) = sub}
    IN IF at = {} THEN 0 ELSE CHOOSE i \in at : \A j \in at : i <= j

\* String.prototype.includes
Includes(s, sub) == sub = <<>> \/ IndexOf(s, sub) > 0

\* post.url?.split('/p/')[1]?.split('/')[0]: what follows the first '/p/', up to the
\* next '/'; undefined (here empty, both falsy) without a url or without '/p/'
UrlShortCode(url) ==
    IF ~url.set THEN <<>>
    ELSE LET i == IndexOf(url.v, <<"/", "p", "/">>) IN
         IF i = 0 THEN <<>>
         ELSE LET rest == SubSeq(url.v, i + 3, Len(url.v))
                  j == IndexOf(rest, <<"/">>)
              IN IF j = 0 THEN rest ELSE SubSeq(rest, 1, j - 1)

\* post.shortCode || post.url?.split('/p/')[1]?.split('/')[0] || ''
ShortCodeOf(post) ==
    IF OrEmpty(post.shortCode) # <<>> THEN post.shortCode.v ELSE UrlShortCode(post.url)

\* String(index + 1).padStart(3, '0')
ImageIndex(index) ==
    IF index + 1 < 10 THEN "00" \o ToString(index + 1)
    ELSE IF index + 1 < 100 THEN "0" \o ToString(index + 1)
    ELSE ToString(index + 1)

\* [`${imageIndex}.jpg`, `${imageIndex}.jpeg`, `${imageIndex}.png`]
PossibleFiles(index) ==
    <<ImageIndex(index) \o ".jpg", ImageIndex(index) \o ".jpeg", ImageIndex(index) \o ".png">>

\* an ocr_results entry whose text is a character sequence
OcrFile(f, t, h) == [file |-> f, text |-> t, confidence |-> 90, has_text |-> h]

\* ocrData[filename] && ocrData[filename].has_text
HasText(ocr, f) == \E e \in ocr.entries : e.file = f /\ e.has_text

\* the text taken for every possible file, without looking at has_text
OcrTextOfIgnoresHasText(ocr, index) ==
    IF ~Truthy(ocr) THEN <<>>
    ELSE LET names == PossibleFiles(index)
             hits == {k \in 1..3 : \E e \in ocr.entries : e.file = names[k]}
         IN IF hits = {} THEN <<>>
            ELSE LET k == CHOOSE h \in hits : \A g \in hits : h <= g
                 IN (CHOOSE e \in ocr.entries : e.file = names[k]).text

\* extractCaptions of part_001, lines 271-285: the loop over possibleFiles
OcrTextOf(ocr, index) ==
    IF ~Truthy(ocr) THEN <<>>
    ELSE LET names == PossibleFiles(index)
             hits == {k \in 1..3 : HasText(ocr, names[k])}
         IN IF hits = {} THEN <<>>
            ELSE LET k == CHOOSE h \in hits : \A g \in hits : h <= g
                 IN (CHOOSE e \in ocr.entries : e.file = names[k]).text

\* the caption record of part_000 and App.tsx
Caption(post) ==
    [text |-> OrEmpty(post.caption), timestamp |-> OrEmpty(post.timestamp),
     likesCount |-> OrZero(post.likesCount), commentsCount |-> OrZero(post.commentsCount),
     shortCode |-> ShortCodeOf(post)]

\* the caption record of part_001, lines 287-294
CaptionWithOcr(post, ocrText) ==
    [text |-> OrEmpty(post.caption), timestamp |-> OrEmpty(post.timestamp),
     likesCount |-> OrZero(post.likesCount), commentsCount |-> OrZero(post.commentsCount),
     shortCode |-> ShortCodeOf(post), ocrText |-> ocrText]

\* extractCaptions of part_001, lines 268-296
extractCaptions(data, ocr) ==
    [i \in 1..Len(data) |-> CaptionWithOcr(data[i], OcrTextOf(ocr, i - 1))]

\* extractCaptions of part_000, lines 302-313
extractCaptions000(data) == [i \in 1..Len(data) |-> Caption(data[i])]

\* the posts of latestPosts that have a caption, App.tsx lines 167-178
RECURSIVE CaptionsOfPosts(_)
CaptionsOfPosts(ps) ==
    IF ps = <<>> THEN <<>>
    ELSE (IF OrEmpty(Head(ps).caption) # <<>> THEN <<Caption(Head(ps))>> ELSE <<>>)
         \o CaptionsOfPosts(Tail(ps))

\* extractCaptions of App.tsx, lines 163-181
RECURSIVE extractCaptionsApp(_)
extractCaptionsApp(data) ==
    IF data = <<>> THEN <<>>
    ELSE (IF Head(data).latestPosts.set THEN CaptionsOfPosts(Head(data).latestPosts.v)
          ELSE <<>>)
         \o extractCaptionsApp(Tail(data))

\* a filter that compares the query with the caption as typed
MatchesCaseSensitive(caption, search) ==
    \/ Includes(caption.text, search)
    \/ Includes(caption.shortCode, search)

\* the test of filterCaptions in part_000 (lines 319-322) and App.tsx (lines 187-190)
Matches(caption, search) ==
    \/ Includes(ToLowerCase(caption.text), search)
    \/ Includes(ToLowerCase(caption.shortCode), search)

\* the test of filterCaptions in part_001, lines 302-306
MatchesWithOcr(caption, search) ==
    \/ Matches(caption, search)
    \/ caption.ocrText # <<>> /\ Includes(ToLowerCase(caption.ocrText), search)

\* filterCaptions of part_001, lines 299-307
filterCaptions(captions, searchText) ==
    IF Trim(searchText) = <<>> THEN captions
    ELSE LET Test(c) == MatchesWithOcr(c, ToLowerCase(searchText))
         IN SelectSeq(captions, Test)

\* filterCaptions of part_000, lines 316-323, and App.tsx, lines 184-191
filterCaptionsNoOcr(captions, searchText) ==
    IF Trim(searchText) = <<>> THEN captions
    ELSE LET Test(c) == Matches(c, ToLowerCase(searchText))
         IN SelectSeq(captions, Test)

\* Math.ceil(count / size) for a count >= 0 and a size > 0
Ceil(count, size) == (count + size - 1) \div size

\* Array.prototype.slice(start, end) for 0 <= start <= end
Slice(s, start, end) == SubSeq(s, start + 1, Min(end, Len(s)))

\* a page count that drops the last, partial page
TotalPagesFloor(count, size) == count \div size

\* const totalPages = Math.ceil(filtered.length / postsPerPage)
TotalPages(count, size) == Ceil(count, size)

\* getPaginatedCaptions, part_001 lines 310-319, given the filtered list
getPaginatedCaptions(filtered, perPage, page) ==
    [captions |-> Slice(filtered, (page - 1) * perPage, (page - 1) * perPage + perPage),
     totalPages |-> TotalPages(Len(filtered), perPage)]

NoProfile == [set |-> FALSE]

\* a profile that reads every post of the list and keeps the last
extractProfileInfoLastPost(data) ==
    IF ~data.set \/ data.v = <<>> THEN NoProfile
    ELSE [set |-> TRUE,
          username |-> OrEmpty(data.v[Len(data.v)].ownerUsername),
          fullName |-> OrEmpty(data.v[Len(data.v)].ownerFullName),
          biography |-> <<>>, followersCount |-> 0, followsCount |-> 0, postsCount |-> 0,
          verified |-> OrFalse(data.v[Len(data.v)].ownerIsVerified), private |-> FALSE,
          profilePicUrl |-> OrEmpty(data.v[Len(data.v)].ownerProfilePicUrl)]

\* extractProfileInfo of part_001, lines 249-265 (part_000 lines 283-299)
extractProfileInfo(data) ==
    IF ~data.set \/ data.v = <<>> THEN NoProfile
    ELSE [set |-> TRUE,
          username |-> OrEmpty(data.v[1].ownerUsername),
          fullName |-> OrEmpty(data.v[1].ownerFullName),
          biography |-> <<>>, followersCount |-> 0, followsCount |-> 0, postsCount |-> 0,
          verified |-> OrFalse(data.v[1].ownerIsVerified), private |-> FALSE,
          profilePicUrl |-> OrEmpty(data.v[1].ownerProfilePicUrl)]

\* extractProfileInfo of App.tsx, lines 146-160
extractProfileInfoApp(data) ==
    IF ~data.set \/ data.v = <<>> THEN NoProfile
    ELSE [set |-> TRUE,
          username |-> OrEmpty(data.v[1].username),
          fullName |-> OrEmpty(data.v[1].fullName),
          biography |-> OrEmpty(data.v[1].biography),
          followersCount |-> OrZero(data.v[1].followersCount),
          followsCount |-> OrZero(data.v[1].followsCount),
          postsCount |-> OrZero(data.v[1].postsCount),
          verified |-> OrFalse(data.v[1].verified), private |-> OrFalse(data.v[1].private),
          profilePicUrl |-> OrEmpty(data.v[1].profilePicUrl)]

(* ------------------- inputs of the caption functions ------------------- *)
\* pages looked at
MaxPage == 4
\* <select> options of the page size, lines 716-719
PageSizes == {10, 15, 25, 50}
\* lengths of the generated post lists
PostCounts == {10, 16, 37}

\* a post with caption, shortCode and url fields c, s, u and owner name o
PostWith(c, s, u, o) ==
    [Obj EXCEPT !.caption = c, !.shortCode = s, !.url = u, !.ownerUsername = o,
                !.ownerFullName = o, !.ownerIsVerified = Flag(o = Str(<<"a">>)),
                !.ownerProfilePicUrl = u]

\* the i-th post of a generated list: captions 'aB' and 'b' in turn, shortCode 'A' on
\* every third post and 'B' on the others
GenPost(i) ==
    [PostWith(Str(IF i % 2 = 1 THEN <<"a", "B">> ELSE <<"b">>),
              Str(IF i % 3 = 0 THEN <<"A">> ELSE <<"B">>), Absent, Str(<<"a">>))
     EXCEPT !.likesCount = Number(i), !.timestamp = Str(<<"a">>)]
Gen(n) == [i \in 1..n |-> GenPost(i)]

\* a post with every field, one with an empty caption and its code in the url only,
\* one with no field
FullPost == PostWith(Str(<<"a", " ", "B">>), Str(<<"A">>), Str(<<"/", "p", "/", "a", "/">>),
                     Str(<<"a">>))
UrlPost == PostWith(Str(<<>>), Absent, Str(<<"b", "/", "p", "/", "B", "/", "a">>),
                    Str(<<"b">>))
BarePost == Obj

\* a profile item of App.tsx with its latestPosts
Item(ps) ==
    [Obj EXCEPT !.username = Str(<<"a">>), !.fullName = Str(<<"A">>),
                !.followersCount = Number(5), !.postsCount = Number(Len(ps)),
                !.verified = Flag(TRUE), !.latestPosts = List(ps)]

\* result.data: missing, empty, lists of posts, lists of profile items
DataInputs ==
    {Absent, List(<<>>),
     List(<<FullPost, UrlPost, BarePost>>), List(<<BarePost, FullPost>>),
     List(<<Item(<<FullPost, UrlPost, BarePost>>)>>), List(<<Item(Gen(16)), Obj>>)}
    \cup {List(Gen(n)) : n \in PostCounts}

\* ocrData: null, a body without ocr_results, and objects keyed by filename
OcrInputs ==
    {OcrNull, OcrUndefined, OcrObject({}),
     OcrObject({OcrFile("001.jpg", <<"b", " ", "A">>, TRUE)}),
     OcrObject({OcrFile("001.jpg", <<>>, FALSE), OcrFile("001.jpeg", <<"B">>, TRUE)}),
     OcrObject({OcrFile("001.png", <<"a">>, TRUE), OcrFile("002.jpeg", <<"b">>, TRUE),
                OcrFile("002.png", <<"a">>, TRUE), OcrFile("010.jpg", <<"A">>, TRUE)}),
     OcrObject({OcrFile("002.jpg", <<" ">>, FALSE)})}

\* what is typed into the search box
SearchInputs == {<<>>, <<" ">>, <<"a">>, <<"A">>, <<"B">>, <<"b", " ">>, <<"a", "b">>}

\* the page of run 1 once its pollers have ended, with some result, OCR data, search
\* text, page size and page
InitRender ==
    /\ loading = FALSE
    /\ result = Data(1)
    /\ error = NoError
    /\ images = <<>>
    /\ imagesLoading = FALSE
    /\ ocrData \in OcrInputs
    /\ ocrLoading = FALSE
    /\ ocrAttempt = 0
    /\ scrapeStatus = NoStatus
    /\ request = Idle
    /\ chains = {}
    /\ loads = [r \in RunIds |-> 0]
    /\ ocrLoads = [r \in RunIds |-> 0]
    /\ runs = 1
    /\ ev = Event("init", NoChain, <<>>)
    /\ postComments = [s \in ShortCodes |-> NoEntry]
    /\ commentFetches = [s \in ShortCodes |-> 0]
    /\ commentCalls = [s \in ShortCodes |-> 0]
    /\ cs_loading = FALSE
    /\ cs_result = FALSE
    /\ cs_error = NoError
    /\ cs_request = "idle"
    /\ posts \in DataInputs
    /\ searchPostsText \in SearchInputs
    /\ postsPerPage \in PageSizes
    /\ currentPage \in 1..MaxPage
    /\ calc = NoCalc

\* what one render computes: the profile, then the captions, filtered and paged;
\* data.map and data.forEach throw on a missing list
Rendered(rev, profile, all, filtered) ==
    [fn |-> "render", rev |-> rev, profile |-> profile, threw |-> ~posts.set,
     all |-> all, filtered |-> filtered,
     captions |-> getPaginatedCaptions(filtered, postsPerPage, currentPage).captions,
     totalPages |-> getPaginatedCaptions(filtered, postsPerPage, currentPage).totalPages]

\* the render of part_001, lines 599 and 659-661
render ==
    /\ calc = NoCalc
    /\ LET all == extractCaptions(posts.v, ocrData) IN
       calc' = Rendered("part_001", extractProfileInfo(posts), all,
                        filterCaptions(all, searchPostsText))
    /\ UNCHANGED <<appVars, ev, commentVars, scraperVars, viewVars>>

\* the render of part_000, lines 581 and 641-643
render000 ==
    /\ calc = NoCalc
    /\ LET all == extractCaptions000(posts.v) IN
       calc' = Rendered("part_000", extractProfileInfo(posts), all,
                        filterCaptionsNoOcr(all, searchPostsText))
    /\ UNCHANGED <<appVars, ev, commentVars, scraperVars, viewVars>>

\* the render of App.tsx, lines 265 and 325-327
renderApp ==
    /\ calc = NoCalc
    /\ LET all == extractCaptionsApp(posts.v) IN
       calc' = Rendered("App.tsx", extractProfileInfoApp(posts), all,
                        filterCaptionsNoOcr(all, searchPostsText))
    /\ UNCHANGED <<appVars, ev, commentVars, scraperVars, viewVars>>

NextRender == render \/ render000 \/ renderApp

SpecRender == InitRender /\ [][NextRender]_vars

(* ------------- the caption list of part_001 as the user works it -------- *)
\* the captions on display and the page count the pagination is drawn with
AllCaptions == extractCaptions(posts.v, ocrData)
FilteredCaptions == filterCaptions(AllCaptions, searchPostsText)
PageCount == TotalPages(Len(FilteredCaptions), postsPerPage)

\* the captions section is rendered: result && allCaptions.length > 0 (lines 355, 662);
\* a result without data throws in extractCaptions
CaptionsShown == result.set /\ posts.set /\ Len(AllCaptions) > 0

\* the search box, lines 683-686
onSearchChange(q) ==
    /\ CaptionsShown
    /\ searchPostsText' = q
    /\ currentPage' = 1
    /\ ev' = Event("search", NoChain, q)
    /\ UNCHANGED <<appVars, commentVars, scraperVars, posts, postsPerPage, calc>>

\* the page-size select, lines 705-708
onPageSizeChange(n) ==
    /\ CaptionsShown
    /\ postsPerPage' = n
    /\ currentPage' = 1
    /\ ev' = Event("pagesize", NoChain, <<n>>)
    /\ UNCHANGED <<appVars, commentVars, scraperVars, posts, searchPostsText, calc>>

\* the 'previous' button, lines 794-796; the pagination is rendered for totalPages > 1
onPreviousPage ==
    /\ CaptionsShown /\ PageCount > 1
    /\ currentPage # 1
    /\ currentPage' = (IF currentPage - 1 > 1 THEN currentPage - 1 ELSE 1)
    /\ ev' = Event("previous", NoChain, <<>>)
    /\ UNCHANGED <<appVars, commentVars, scraperVars, posts, searchPostsText, postsPerPage, calc>>

\* a page number button, lines 809-812
onPageClick(page) ==
    /\ CaptionsShown /\ PageCount > 1
    /\ page \in 1..PageCount
    /\ currentPage' = page
    /\ ev' = Event("page", NoChain, <<page>>)
    /\ UNCHANGED <<appVars, commentVars, scraperVars, posts, searchPostsText, postsPerPage, calc>>

\* the 'next' button, lines 827-829
onNextPage ==
    /\ CaptionsShown /\ PageCount > 1
    /\ currentPage # PageCount
    /\ currentPage' = Min(PageCount, currentPage + 1)
    /\ ev' = Event("next", NoChain, <<>>)
    /\ UNCHANGED <<appVars, commentVars, scraperVars, posts, searchPostsText, postsPerPage, calc>>

(* ============================ part_000 ================================= *)
(* handleSubmit, lines 76-86, and makeRequestWithRetry to its fetch,       *)
(* lines 89-112                                                            *)
handleSubmitRetry(u) ==
    /\ ~loading
    /\ request.st = "idle"
    /\ IF Trim(u) = <<>>
       THEN /\ error' = ValidationError
            /\ ev' = Event("invalid", NoChain, u)
            /\ UNCHANGED <<loading, result, request>>
       ELSE /\ runs < MaxMonitoredRuns
            /\ Outstanding <= MaxPending
            /\ loading' = TRUE
            /\ error' = NoError
            /\ result' = NoResult
            /\ request' = [st |-> "fetch", attempt |-> 1, username |-> cleanUsername(u),
                           delays |-> <<>>]
            /\ ev' = Event("submit", NoChain, u)
    /\ UNCHANGED <<scrapeStatus, images, imagesLoading, ocrData, ocrLoading, ocrAttempt,
                   chains, loads, ocrLoads, runs>>

(* makeRequestWithRetry, lines 114-150, and the rest of handleSubmit,      *)
(* lines 153-169: the answer of start-scrape. With a runId the image       *)
(* poller and the status monitor run to their first await in this step.    *)
makeRequestWithRetry_response(resp) ==
    /\ request.st = "fetch"
    /\ CASE resp = "ok" ->
              /\ result' = Data(runs + 1)
              /\ runs' = runs + 1
              /\ chains' = chains \cup {StartChain("images", runs + 1),
                                        StartChain("status", runs + 1)}
              /\ imagesLoading' = TRUE
              /\ loading' = FALSE
              /\ request' = Idle
              /\ ev' = Event("started", Call("run", runs + 1), <<>>)
              /\ UNCHANGED error
         [] resp = "ok_without_runId" ->
              /\ result' = Data(0)
              /\ loading' = FALSE
              /\ request' = Idle
              /\ ev' = Event("answered", NoChain, <<>>)
              /\ UNCHANGED <<error, runs, chains, imagesLoading>>
         [] OTHER ->
              IF CanRetry(request.attempt, SubmitMaxAttempts)
              THEN /\ request' = [request EXCEPT !.st = "wait",
                                      !.delays = Append(@, SubmitDelay(request.attempt))]
                   /\ ev' = Event("retry", NoChain, <<>>)
                   /\ UNCHANGED <<error, result, loading, runs, chains, imagesLoading>>
              ELSE /\ error' = SubmitError(resp)
                   /\ loading' = FALSE
                   /\ request' = Idle
                   /\ ev' = Event("rejected", NoChain, <<resp>>)
                   /\ UNCHANGED <<result, runs, chains, imagesLoading>>
    /\ UNCHANGED <<scrapeStatus, images, ocrData, ocrLoading, ocrAttempt, loads, ocrLoads>>

(* makeRequestWithRetry, lines 145-146: the delay is over, attempt + 1     *)
makeRequestWithRetry_timer ==
    /\ request.st = "wait"
    /\ request' = [request EXCEPT !.st = "fetch", !.attempt = @ + 1]
    /\ ev' = Event("resubmit", NoChain, <<>>)
    /\ UNCHANGED <<scrapeStatus, loading, result, error, images, imagesLoading, ocrData,
                   ocrLoading, ocrAttempt, chains, loads, ocrLoads, runs>>

(* checkScrapeStatus, lines 179-215: the answer of scrape-status; on       *)
(* completed with images it calls loadImages(runId), which runs to its     *)
(* fetch                                                                   *)
checkScrapeStatus_response(c, resp) ==
    /\ c \in chains /\ c.kind = "status" /\ c.st = "fetch"
    /\ scrapeStatus' = (IF resp.kind = "ok"
                        THEN Status(c.run, resp.status, resp.images_count)
                        ELSE scrapeStatus)
    /\ CASE StatusOutcome(resp, c.attempt) = "completed" ->
              /\ chains' = chains \ {c}
              /\ imagesLoading' = TRUE
              /\ loads' = [loads EXCEPT ![c.run] = @ + 1]
              /\ ev' = Event("completed", c, <<>>)
         [] StatusOutcome(resp, c.attempt) = "scheduled" ->
              /\ chains' = Replace(c, Schedule(c, StatusPollDelay(c.attempt)))
              /\ ev' = Event("scheduled", Schedule(c, StatusPollDelay(c.attempt)), <<>>)
              /\ UNCHANGED <<imagesLoading, loads>>
         [] OTHER ->
              /\ chains' = chains \ {c}
              /\ ev' = Event(StatusOutcome(resp, c.attempt), c, StatusGiveUpLog(resp))
              /\ UNCHANGED <<imagesLoading, loads>>
    /\ UNCHANGED <<loading, result, error, images, ocrData, ocrLoading, ocrAttempt,
                   request, ocrLoads, runs>>

(* checkScrapeStatus, lines 173-177: the timer fires, attempt + 1 starts   *)
checkScrapeStatus_timer(c) ==
    /\ c \in chains /\ c.kind = "status" /\ c.st = "timer"
    /\ chains' = Replace(c, Fire(c))
    /\ ev' = Event("fired", Fire(c), <<>>)
    /\ UNCHANGED <<scrapeStatus, loading, result, error, images, imagesLoading, ocrData,
                   ocrLoading, ocrAttempt, request, loads, ocrLoads, runs>>

(* ===================== mythic_frontend/src/App.tsx ===================== *)
(* handleSubmit, lines 66-86: validation, then the start-scrape fetch      *)
handleSubmitApp(u) ==
    /\ ~loading
    /\ request.st = "idle"
    /\ IF Trim(u) = <<>>
       THEN /\ error' = ValidationError
            /\ ev' = Event("invalid", NoChain, u)
            /\ UNCHANGED <<loading, result, request>>
       ELSE /\ runs < MaxRuns
            /\ loading' = TRUE
            /\ error' = NoError
            /\ result' = NoResult
            /\ request' = [st |-> "fetch", attempt |-> 1, username |-> cleanUsername(u),
                           delays |-> <<>>]
            /\ ev' = Event("submit", NoChain, u)
    /\ UNCHANGED <<scrapeStatus, images, imagesLoading, ocrData, ocrLoading, ocrAttempt,
                   chains, loads, ocrLoads, runs>>
    /\ UNCHANGED <<commentVars, scraperVars, viewVars, calc>>

(* handleSubmit, lines 88-99: the answer of start-scrape                   *)
handleSubmitApp_response(resp) ==
    /\ request.st = "fetch"
    /\ request' = Idle
    /\ loading' = FALSE
    /\ CASE resp = "ok" ->
              /\ result' = Data(runs + 1)
              /\ runs' = runs + 1
              /\ ev' = Event("answered", Call("run", runs + 1), <<>>)
              /\ UNCHANGED error
         [] resp = "ok_without_runId" ->
              /\ result' = Data(0)
              /\ ev' = Event("answered", NoChain, <<>>)
              /\ UNCHANGED <<error, runs>>
         [] OTHER ->
              /\ error' = (IF resp = "notok" THEN HttpError ELSE NetworkError)
              /\ ev' = Event("rejected", NoChain, <<>>)
              /\ UNCHANGED <<result, runs>>
    /\ UNCHANGED <<scrapeStatus, images, imagesLoading, ocrData, ocrLoading, ocrAttempt,
                   chains, loads, ocrLoads>>
    /\ UNCHANGED <<commentVars, scraperVars, viewVars, calc>>

\* a state update that forgets the other posts' entries
SetEntryDropsPrev(prev, s, e) == [x \in ShortCodes |-> IF x = s THEN e ELSE NoEntry]

\* setPostComments(prev => ({...prev, [shortCode]: e}))
SetEntry(prev, s, e) == [prev EXCEPT ![s] = e]

\* err.message || 'Ошибка загрузки комментариев', lines 118-120 and 139
CommentError(resp) ==
    IF resp.message # "" THEN resp.message ELSE CommentsDefaultError

\* the entry loadPostComments writes on an answer, lines 124-141
CommentOutcome(resp) ==
    IF resp.kind = "ok"
    THEN Entry(FALSE, IF resp.listed THEN resp.comments ELSE <<>>, NoError)
    ELSE Entry(FALSE, <<>>, CommentError(resp))

(* the 'load comments' button of a post, lines 433-439 (disabled while the *)
(* post's entry is loading), and loadPostComments to its fetch, lines      *)
(* 103-116                                                                 *)
loadPostComments(s) ==
    /\ result.set
    /\ ~postComments[s].loading
    /\ commentCalls[s] < MaxCommentLoads
    /\ postComments' = SetEntry(postComments, s, Entry(TRUE, <<>>, NoError))
    /\ commentFetches' = [commentFetches EXCEPT ![s] = @ + 1]
    /\ commentCalls' = [commentCalls EXCEPT ![s] = @ + 1]
    /\ ev' = Event("comments_click", Call("comments", 0), <<s>>)
    /\ UNCHANGED <<appVars, scraperVars, viewVars, calc>>

\* a failure handler that asks again
loadPostComments_responseRetries(s, resp) ==
    /\ commentFetches[s] > 0
    /\ postComments' = SetEntry(postComments, s, CommentOutcome(resp))
    /\ commentFetches' = (IF resp.kind = "ok" THEN [commentFetches EXCEPT ![s] = @ - 1]
                          ELSE commentFetches)
    /\ commentCalls' = (IF resp.kind = "ok" THEN commentCalls
                        ELSE [commentCalls EXCEPT ![s] = @ + 1])
    /\ ev' = Event(IF resp.kind = "ok" THEN "comments_loaded" ELSE "comments_failed",
                   Call("comments", 0), <<s, resp>>)
    /\ UNCHANGED <<appVars, scraperVars, viewVars, calc>>

(* loadPostComments, lines 118-142: the answer of scrape-comments          *)
loadPostComments_response(s, resp) ==
    /\ commentFetches[s] > 0
    /\ postComments' = SetEntry(postComments, s, CommentOutcome(resp))
    /\ commentFetches' = [commentFetches EXCEPT ![s] = @ - 1]
    /\ ev' = Event(IF resp.kind = "ok" THEN "comments_loaded" ELSE "comments_failed",
                   Call("comments", 0), <<s, resp>>)
    /\ UNCHANGED <<appVars, commentCalls, scraperVars, viewVars, calc>>

NextComments ==
    \/ \E u \in Usernames : handleSubmitApp(u)
    \/ \E resp \in SubmitResponses : handleSubmitApp_response(resp)
    \/ \E s \in ShortCodes : loadPostComments(s)
    \/ \E s \in ShortCodes, resp \in CommentResponses : loadPostComments_response(s, resp)

SpecComments == Init /\ [][NextComments]_vars

(* ================ mythic_frontend/src/CommentsScraper.tsx ============== *)
(* handleSubmit, lines 29-45: validation, then the scrape-comments fetch.  *)
(* The form is disabled while loading.                                     *)
cs_handleSubmit(urls) ==
    /\ ~cs_loading
    /\ cs_request = "idle"
    /\ IF Trim(urls) = <<>>
       THEN /\ cs_error' = ScraperValidationError
            /\ ev' = Event("invalid", Call("scraper", 0), urls)
            /\ UNCHANGED <<cs_loading, cs_result, cs_request>>
       ELSE /\ cs_loading' = TRUE
            /\ cs_error' = NoError
            /\ cs_result' = FALSE
            /\ cs_request' = "fetch"
            /\ ev' = Event("submit", Call("scraper", 0), urls)
    /\ UNCHANGED <<appVars, commentVars, viewVars, calc>>

\* the message of a failed scrape-comments call, lines 46-49 and 55
ScraperError(resp) ==
    CASE resp = "notok_detail" -> ScraperDetailError
      [] resp = "notok" -> HttpError
      [] resp = "notok_nojson" -> "Unexpected token"
      [] OTHER -> NetworkError

(* handleSubmit, lines 46-58: the answer of scrape-comments                *)
cs_handleSubmit_response(resp) ==
    /\ cs_request = "fetch"
    /\ cs_request' = "idle"
    /\ cs_loading' = FALSE
    /\ IF resp = "ok"
       THEN /\ cs_result' = TRUE
            /\ ev' = Event("answered", Call("scraper", 0), <<>>)
            /\ UNCHANGED cs_error
       ELSE /\ cs_error' = ScraperError(resp)
            /\ ev' = Event("rejected", Call("scraper", 0), <<>>)
            /\ UNCHANGED cs_result
    /\ UNCHANGED <<appVars, commentVars, viewVars, calc>>

\* a step of the App component leaves the other components' state alone; the caption
\* list is followed in the specifications of the caption list only
AppOnly == UNCHANGED <<commentVars, scraperVars, viewVars, calc>>

\* the fixed text of the status banner, part_000 line 434
StatusErrorBanner == "Image loading error"

\* the failure texts on the page of part_000: the error box (lines 358-362) and,
\* inside the result block, the banner of a status = error (lines 371, 396, 424-436)
ErrorTexts ==
    (IF error # NoError THEN {error} ELSE {})
    \cup (IF result.set /\ scrapeStatus.set /\ scrapeStatus.status = "error"
          THEN {StatusErrorBanner} ELSE {})

NextOcr ==
    \/ (\E u \in Usernames : handleSubmit(u)) /\ AppOnly
    \/ (\E resp \in SubmitResponses : handleSubmit_response(resp)) /\ AppOnly
    \/ (\E c \in chains, resp \in ImageResponses : loadImagesWithRetry_response(c, resp)) /\ AppOnly
    \/ (\E c \in chains : loadImagesWithRetry_timer(c)) /\ AppOnly
    \/ (\E c \in chains, resp \in OcrResponses : loadOCRResultsWithRetry_response(c, resp)) /\ AppOnly
    \/ (\E c \in chains : loadOCRResultsWithRetry_timer(c)) /\ AppOnly
    \/ loadImages_click /\ AppOnly
    \/ (\E r \in RunIds, resp \in ImageResponses : loadImages_response(r, resp)) /\ AppOnly
    \/ loadOCRResults_click /\ AppOnly
    \/ (\E r \in RunIds, resp \in OcrResponses : loadOCRResults_response(r, resp)) /\ AppOnly

SpecOcr == Init /\ [][NextOcr]_vars

\* the results the backend answers start-scrape with: 37 and 10 posts
ViewData == {List(Gen(37)), List(Gen(10))}
ViewSearches == {<<>>, <<"a">>}
\* a backend whose images and OCR results are ready at the first poll
PromptImages == ImagesBody(NumImages, Files(NumImages))
PromptOcr == {OcrBody(OcrObject({})), OcrBody(OcrObject({OcrFile("001.jpg", <<"b", " ", "A">>, TRUE)}))}

\* setResult(null) of handleSubmit (line 87) and setResult(data) (line 100) as seen by
\* the caption list; nothing in handleSubmit touches the page, the size or the search
NextView ==
    \/ \E u \in Usernames :
          /\ handleSubmit(u)
          /\ posts' = (IF Trim(u) = <<>> THEN posts ELSE Absent)
          /\ UNCHANGED <<commentVars, scraperVars, searchPostsText, postsPerPage,
                         currentPage, calc>>
    \/ \E resp \in SubmitResponses, data \in ViewData :
          /\ handleSubmit_response(resp)
          /\ posts' = (IF resp \in {"ok", "ok_without_runId"} THEN data ELSE posts)
          /\ UNCHANGED <<commentVars, scraperVars, searchPostsText, postsPerPage,
                         currentPage, calc>>
    \/ (\E c \in chains : loadImagesWithRetry_response(c, PromptImages)) /\ AppOnly
    \/ (\E c \in chains, resp \in PromptOcr : loadOCRResultsWithRetry_response(c, resp)) /\ AppOnly
    \/ (\E r \in RunIds : loadImages_response(r, PromptImages)) /\ AppOnly
    \/ \E q \in ViewSearches : onSearchChange(q)
    \/ \E n \in PageSizes : onPageSizeChange(n)
    \/ onPreviousPage
    \/ \E page \in 1..MaxPage : onPageClick(page)
    \/ onNextPage

SpecView == Init /\ [][NextView]_vars

\* the backend of the image scenario: total_images = 0 on attempts 1 to 3 of the
\* image poller, then the full list
ScenarioImageResponses(c) ==
    IF c.attempt <= 3 THEN {ImagesBody(0, <<>>)} ELSE {ImagesBody(NumImages, Files(NumImages))}

NextScenario ==
    \/ (\E u \in Usernames : handleSubmit(u)) /\ AppOnly
    \/ (\E resp \in SubmitResponses : handleSubmit_response(resp)) /\ AppOnly
    \/ (\E c \in chains : \E resp \in ScenarioImageResponses(c) :
           loadImagesWithRetry_response(c, resp)) /\ AppOnly
    \/ (\E c \in chains : loadImagesWithRetry_timer(c)) /\ AppOnly
    \/ (\E c \in chains, resp \in OcrResponses : loadOCRResultsWithRetry_response(c, resp)) /\ AppOnly
    \/ (\E c \in chains : loadOCRResultsWithRetry_timer(c)) /\ AppOnly
    \/ loadImages_click /\ AppOnly
    \/ (\E r \in RunIds, resp \in ImageResponses : loadImages_response(r, resp)) /\ AppOnly
    \/ loadOCRResults_click /\ AppOnly
    \/ (\E r \in RunIds, resp \in OcrResponses : loadOCRResults_response(r, resp)) /\ AppOnly

SpecScenario == Init /\ [][NextScenario]_vars

NextStatus ==
    \/ (\E u \in Usernames : handleSubmitRetry(u)) /\ AppOnly
    \/ (\E resp \in RetrySubmitResponses : makeRequestWithRetry_response(resp)) /\ AppOnly
    \/ makeRequestWithRetry_timer /\ AppOnly
    \/ (\E c \in chains, resp \in StatusResponses : checkScrapeStatus_response(c, resp)) /\ AppOnly
    \/ (\E c \in chains : checkScrapeStatus_timer(c)) /\ AppOnly
    \/ (\E c \in chains, resp \in ImageResponses : loadImagesWithRetry_response(c, resp)) /\ AppOnly
    \/ (\E c \in chains : loadImagesWithRetry_timer(c)) /\ AppOnly
    \/ loadImages_click /\ AppOnly
    \/ (\E r \in RunIds, resp \in ImageResponses : loadImages_response(r, resp)) /\ AppOnly

SpecStatus == Init /\ [][NextStatus]_vars

\* the start-scrape fetch answers, the delay before the next attempt ends
SubmitProgress ==
    /\ \/ \E resp \in RetrySubmitResponses : makeRequestWithRetry_response(resp)
       \/ makeRequestWithRetry_timer
    /\ AppOnly

\* the scrape-status fetch of the monitor answers, its timer fires
MonitorProgress ==
    /\ \E c \in chains :
          \/ \E resp \in StatusResponses : checkScrapeStatus_response(c, resp)
          \/ checkScrapeStatus_timer(c)
    /\ AppOnly

\* the get-images fetch of the image poller answers, its timer fires
ImagesProgress ==
    /\ \E c \in chains :
          \/ \E resp \in ImageResponses : loadImagesWithRetry_response(c, resp)
          \/ loadImagesWithRetry_timer(c)
    /\ AppOnly

\* the get-images fetch of a loadImages call answers
LoadProgress ==
    /\ \E r \in RunIds, resp \in ImageResponses : loadImages_response(r, resp)
    /\ AppOnly

\* part_000 when every fetch in flight is answered and every timer set fires
SpecStatusFair ==
    /\ Init /\ [][NextStatus]_vars
    /\ WF_vars(SubmitProgress) /\ WF_vars(MonitorProgress)
    /\ WF_vars(ImagesProgress) /\ WF_vars(LoadProgress)

\* the start-scrape fetch of part_001 answers
SubmitAnswer ==
    /\ \E resp \in SubmitResponses : handleSubmit_response(resp)
    /\ AppOnly

\* the get-ocr fetch of the OCR poller answers, its timer fires
OcrProgress ==
    /\ \E c \in chains :
          \/ \E resp \in OcrResponses : loadOCRResultsWithRetry_response(c, resp)
          \/ loadOCRResultsWithRetry_timer(c)
    /\ AppOnly

\* the get-ocr fetch of a loadOCRResults call answers
OcrLoadProgress ==
    /\ \E r \in RunIds, resp \in OcrResponses : loadOCRResults_response(r, resp)
    /\ AppOnly

\* part_001 with one run of the backend
NextOcrOneRun ==
    \/ (\E u \in Usernames :
           handleSubmit(u) /\ (Trim(u) = <<>> \/ runs < MaxMonitoredRuns)) /\ AppOnly
    \/ SubmitAnswer
    \/ ImagesProgress
    \/ OcrProgress
    \/ loadImages_click /\ AppOnly
    \/ LoadProgress
    \/ loadOCRResults_click /\ AppOnly
    \/ OcrLoadProgress

\* part_001 when every fetch in flight is answered and every timer set fires
SpecOcrFair ==
    /\ Init /\ [][NextOcrOneRun]_vars
    /\ WF_vars(SubmitAnswer)
    /\ WF_vars(ImagesProgress) /\ WF_vars(LoadProgress)
    /\ WF_vars(OcrProgress) /\ WF_vars(OcrLoadProgress)

\* part_000 beside the comments scraper form
NextValidation ==
    \/ NextStatus
    \/ \E urls \in PostUrlInputs : cs_handleSubmit(urls)
    \/ \E resp \in ScraperResponses : cs_handleSubmit_response(resp)

SpecValidation == Init /\ [][NextValidation]_vars

(* ============================== claims ================================= *)
ChainsOf(S, kind, r) == {c \in S : c.kind = kind /\ c.run = r}

\* get-images fetches of run r that are in flight
ImageFetches(r) ==
    Cardinality({c \in ChainsOf(chains, "images", r) : c.st = "fetch"}) + loads[r]

Ended(e) == e.op \in {"succeeded", "exhausted", "failed"}

(* C1: once a new submission has superseded a run, a retry timer of that   *)
(* run that fires writes nothing to images, ocrData, scrapeStatus or the   *)
(* loading flags.                                                          *)
C1_StaleContinuationDropped ==
    [][(ev'.op = "fired" /\ result # Data(ev'.c.run))
        => UNCHANGED <<images, ocrData, scrapeStatus, loading, imagesLoading, ocrLoading>>]_vars

(* C2: a poller never issues more fetches than its maxAttempts: at most 8  *)
(* get-images calls by the image poller of a run and at most 6             *)
(* get-ocr-results calls by its OCR poller, and a run has one poller per   *)
(* phase.                                                                  *)
C2_AtMostMaxAttemptsCalls ==
    /\ \A c \in chains \cup {ev.c} :
          /\ c.kind = "images" => c.calls <= 8
          /\ c.kind = "ocr" => c.calls <= 6
    /\ \A r \in RunIds :
          /\ Cardinality(ChainsOf(chains, "images", r)) <= 1
          /\ Cardinality(ChainsOf(chains, "ocr", r)) <= 1

\* the image poller has given up after its 8th call while the OCR poller is in its 6th
C2_Witness ==
    /\ ev.op \in {"exhausted", "failed"} /\ ev.c.kind = "images" /\ ev.c.calls = 8
    /\ \E c \in chains : c.kind = "ocr" /\ c.calls = 6

(* C3: a manual reload of a phase leaves no retry chain of that phase and  *)
(* run alive: the click cancels the poller's pending retry.                *)
C3_ManualReloadCancelsRetry ==
    (ev.op = "click") =>
        ~ \E c \in chains : c.kind = ev.c.kind /\ c.run = ev.c.run /\ c.st = "timer"

C5_MonitorTriggerOnlyIfNotStarted ==
    (ev.op = "completed") => ChainsOf(chains, "images", ev.c.run) = {}

(* C6: once the image poller of a run has succeeded, no further get-images *)
(* fetch is issued for that run (stated for the step after the success).   *)
C6_NoFetchAfterSuccess ==
    [][(ev.op = "succeeded" /\ ev.c.kind = "images")
        => /\ loads'[ev.c.run] <= loads[ev.c.run]
           /\ ChainsOf(chains', "images", ev.c.run) = {}]_vars

(* C7: at most one get-images fetch of a run is in flight at any time.     *)
C7_OneFetchInFlight ==
    \A r \in RunIds : ImageFetches(r) <= 1

OcrSucceeded(e) == e.op = "succeeded" /\ e.c.kind = "ocr"
ImagesSucceeded(e) ==
    \/ e.op = "succeeded" /\ e.c.kind = "images"
    \/ e.op = "loaded" /\ e.c.kind = "images"

C9_ImageScenario ==
    (Ended(ev) /\ ev.c.kind = "images") =>
        /\ ev.op = "succeeded"
        /\ ev.c.attempt = 4
        /\ ev.c.calls = 4
        /\ ev.c.delays = <<5000, 10000, 15000>>
        /\ imagesLoading = FALSE
        /\ images = ev.got
        /\ Len(images) = NumImages

C9_Witness ==
    /\ ev.op = "succeeded" /\ ev.c.kind = "images" /\ ev.c.calls = 4
    /\ images = Files(NumImages)
    /\ ~imagesLoading

(* C10: an OCR poller that never gets a 2xx answer stops after exactly 6   *)
(* calls with waits of 10000 to 50000 ms; the stop sets ocrLoading false   *)
(* and leaves ocrData and error as they were.                              *)
C10_OcrScenario ==
    [][(ev'.op \in {"exhausted", "failed"} /\ ev'.c.kind = "ocr") =>
            /\ ev'.c.attempt = 6
            /\ ev'.c.calls = 6
            /\ ev'.c.delays = <<10000, 20000, 30000, 40000, 50000>>
            /\ ChainsOf(chains', "ocr", ev'.c.run) = {}
            /\ ocrLoading' = FALSE
            /\ ocrData' = ocrData
            /\ error' = error]_vars

\* the OCR poller has given up: no OCR data, no error, nothing loading
C10_Witness ==
    /\ ev.op \in {"exhausted", "failed"} /\ ev.c.kind = "ocr" /\ ev.c.calls = 6
    /\ ocrData = OcrNull
    /\ error = NoError
    /\ ~ocrLoading
(* C11: the status monitor waits 10000 ms before every re-poll and makes   *)
(* at most 20 get-status calls for a run; when the 20th poll is not        *)
(* terminal either, it schedules nothing more and leaves the error state   *)
(* as it was.                                                              *)
C11_MonitorFixedIntervalBounded ==
    [][/\ \A c \in ChainsOf(chains', "status", ev'.c.run) :
            /\ c.calls <= 20
            /\ \A i \in 1..Len(c.delays) : c.delays[i] = 10000
       /\ (ev'.c.kind = "status" /\ ev'.op \in {"exhausted", "failed"}) =>
            /\ ev'.c.calls = 20
            /\ Len(ev'.c.delays) = 19
            /\ ChainsOf(chains', "status", ev'.c.run) = {}
            /\ error' = error]_vars

\* the 20th poll has answered data_ready after nineteen waits and no error is shown
C11_Witness ==
    /\ ev.op = "exhausted" /\ ev.c.kind = "status"
    /\ ev.c.calls = 20 /\ Len(ev.c.delays) = 19
    /\ scrapeStatus.status = "data_ready"
    /\ error = NoError

(* C12: when a status poll answers error, the monitor schedules no further *)
(* poll for the run and the error message the backend reported is among    *)
(* the failure texts on the page.                                          *)
C12_ErrorMessageSurfaced ==
    (ev.op = "error") =>
        /\ ChainsOf(chains, "status", ev.c.run) = {}
        /\ scrapeStatus.images_error \in ErrorTexts

(* C13: the submission is attempted at most 3 times, waiting 1000 ms and   *)
(* then 2000 ms between attempts; a 2xx answer ends it at once; only the   *)
(* failure of attempt 3 is surfaced, with the message of that attempt,     *)
(* result null, loading false and no poller started.                       *)
C13_SubmissionRetry ==
    [][/\ request'.attempt <= 3
       /\ (ev'.op = "retry") =>
            /\ request.attempt < 3
            /\ request'.delays = SubSeq(<<1000, 2000>>, 1, request.attempt)
            /\ UNCHANGED <<error, result, loading, chains>>
       /\ (ev'.op = "resubmit") => request'.attempt = request.attempt + 1
       /\ (ev'.op \in {"started", "answered"}) =>
            /\ request' = Idle /\ ~loading' /\ result'.set /\ error' = error
       /\ (ev'.op = "rejected") =>
            /\ request.attempt = 3
            /\ request.delays = <<1000, 2000>>
            /\ error' = SubmitError(ev'.got[1])
            /\ result' = NoResult
            /\ ~loading'
            /\ chains' = chains
            /\ request' = Idle]_vars

\* the third attempt has timed out: its message is shown and nothing is polling
C13_Witness ==
    /\ ev.op = "rejected" /\ ev.got = <<"timeout">>
    /\ error = TimeoutError
    /\ result = NoResult /\ ~loading /\ chains = {}
(* C14: a step that writes the comment entry of one post leaves the entry  *)
(* of every other post as it was, and no other step writes any entry.      *)
C14_CommentEntriesIndependent ==
    [][IF ev'.c.kind = "comments"
       THEN \A x \in ShortCodes \ {ev'.got[1]} : postComments'[x] = postComments[x]
       ELSE postComments' = postComments]_vars

\* the load of post A has failed while the load of post B is still in flight
C14_Witness ==
    /\ ev.op = "comments_failed" /\ ev.got[1] = "A"
    /\ postComments["A"].error # NoError
    /\ postComments["B"] = Entry(TRUE, <<>>, NoError)
    /\ commentFetches["B"] = 1

(* C15: a get-comments call is issued only by a click on a post's button,  *)
(* one call per click, and at most one is in flight per post; a failed     *)
(* call leaves the post's entry at loading false, no comments and an       *)
(* error, a successful one at loading false, no error and the returned     *)
(* comments; neither issues another call.                                  *)
C15_OneCallPerCommentRequest ==
    [][/\ \A s \in ShortCodes :
            /\ commentFetches'[s] <= 1
            /\ commentCalls'[s] # commentCalls[s] =>
                  /\ ev'.op = "comments_click" /\ ev'.got[1] = s
                  /\ commentCalls'[s] = commentCalls[s] + 1
       /\ (ev'.op = "comments_click") =>
            /\ commentCalls'[ev'.got[1]] = commentCalls[ev'.got[1]] + 1
            /\ commentFetches'[ev'.got[1]] = 1
       /\ (ev'.op = "comments_failed") =>
            /\ postComments'[ev'.got[1]].loading = FALSE
            /\ postComments'[ev'.got[1]].comments = <<>>
            /\ postComments'[ev'.got[1]].error # NoError
            /\ commentFetches'[ev'.got[1]] = 0
       /\ (ev'.op = "comments_loaded") =>
            /\ postComments'[ev'.got[1]].loading = FALSE
            /\ postComments'[ev'.got[1]].error = NoError
            /\ postComments'[ev'.got[1]].comments = ev'.got[2].comments
            /\ commentFetches'[ev'.got[1]] = 0]_vars

\* a second request for post A has brought comments after the first one failed
C15_Witness ==
    /\ ev.op = "comments_loaded" /\ ev.got[1] = "A"
    /\ commentCalls["A"] = 2
    /\ postComments["A"] = Entry(FALSE, <<"c1", "c2">>, NoError)
\* the input has no character other than spaces
Blank(s) == \A i \in 1..Len(s) : s[i] = " "

(* C16: a submission is rejected by validation exactly when its required   *)
(* input (the username, or the post URLs of the comments scraper) is empty *)
(* or only spaces; the rejection sets the validation error, issues no      *)
(* network call and starts no poller.                                      *)
C16_EmptyInputRejected ==
    [][(ev'.op \in {"invalid", "submit"}) =>
            /\ (ev'.op = "invalid") <=> Blank(ev'.got)
            /\ (ev'.op = "invalid") =>
                  /\ UNCHANGED <<request, cs_request, chains, loads, ocrLoads, runs,
                                 loading, cs_loading>>
                  /\ IF ev'.c.kind = "scraper"
                     THEN cs_error' = ScraperValidationError /\ error' = error
                     ELSE error' = ValidationError /\ cs_error' = cs_error]_vars

\* the scraper form has rejected two spaces, and the App form a blank username
C16_Witness ==
    /\ ev.op = "invalid" /\ ev.c.kind = "scraper" /\ ev.got = <<" ", " ">>
    /\ cs_error = ScraperValidationError /\ cs_request = "idle" /\ ~cs_loading
    /\ error = ValidationError
    /\ request.st = "idle"
(* C17: the error state is set only by a validation failure or by the      *)
(* failure of the submission's last attempt, and cleared only by a new     *)
(* submission; no step of the image poller, the status monitor or an       *)
(* image load changes it, whatever the answer.                             *)
C17_ErrorOnlyFromSubmission ==
    [][/\ (error' # error /\ error' # NoError) => ev'.op \in {"invalid", "rejected"}
       /\ (error' # error /\ error' = NoError) => ev'.op = "submit"
       /\ (ev'.op = "rejected") => request.attempt = 3
       /\ (ev'.c.kind \in {"images", "ocr", "status"}) => error' = error]_vars

\* the backend has reported status = error and the image poller has failed on its
\* 8th call: the error box is still empty
C17_Witness ==
    /\ ev.op = "failed" /\ ev.c.kind = "images" /\ ev.c.calls = 8
    /\ scrapeStatus.status = "error"
    /\ error = NoError

\* a step in which a phase did not get its data
Degraded(e, kind) ==
    e.c.kind = kind /\ e.op \in {"scheduled", "exhausted", "failed", "notloaded"}

(* C18: a step in which the image phase fails, is not ready or gives up    *)
(* leaves the OCR phase as it is (its stored data, its flags, its poller   *)
(* and its fetches), and a failing OCR step leaves the image phase as it   *)
(* is.                                                                     *)
C18_PhasesDegradeIndependently ==
    [][/\ Degraded(ev', "images") =>
            /\ UNCHANGED <<ocrData, ocrLoading, ocrAttempt, ocrLoads>>
            /\ \A r \in RunIds : ChainsOf(chains', "ocr", r) = ChainsOf(chains, "ocr", r)
       /\ Degraded(ev', "ocr") =>
            /\ UNCHANGED <<images, imagesLoading, loads>>
            /\ \A r \in RunIds :
                  ChainsOf(chains', "images", r) = ChainsOf(chains, "images", r)]_vars

\* the image poller has given up on its 8th call while the OCR text is stored
C18_Witness ==
    /\ ev.op \in {"exhausted", "failed"} /\ ev.c.kind = "images" /\ ev.c.calls = 8
    /\ images = <<>>
    /\ ocrData = OcrObject({OcrEntry("001.jpg", "A")})

\* nothing is outstanding: no poller, no fetch, no timer
Quiet ==
    /\ chains = {} /\ request = Idle
    /\ \A r \in RunIds : loads[r] = 0 /\ ocrLoads[r] = 0

AllFlagsDown == ~loading /\ ~imagesLoading /\ ~ocrLoading

\* a step the user takes: a button or a form submission
UserStep == ev'.op \in {"click", "submit", "invalid"}

(* C19: when fetches are answered and timers fire, the pollers started by  *)
(* a submission all reach a terminal state; whenever nothing is            *)
(* outstanding, loading, imagesLoading and ocrLoading are false; and       *)
(* unless the user keeps clicking forever, the page ends up with nothing   *)
(* outstanding and the three flags false for good.                         *)
C19_PollersConverge ==
    /\ (chains # {}) ~> (chains = {})
    /\ [](Quiet => AllFlagsDown)
    /\ ([]<><<UserStep>>_vars) \/ (<>[](Quiet /\ AllFlagsDown))

\* both pollers of the run have given up, the OCR poller on its 6th call as the
\* last thing outstanding
C19_Witness ==
    /\ Quiet /\ AllFlagsDown
    /\ runs = 1 /\ result = Data(1)
    /\ ev.op \in {"exhausted", "failed"} /\ ev.c.kind = "ocr" /\ ev.c.calls = 6
    /\ images = <<>> /\ ocrData.kind = "null"

(* C20: the attempt number of a poller starts at 1 and grows by 1 with     *)
(* every timer that fires; once the image phase of a run has ended         *)
(* (succeeded or given up), a new get-images fetch for that run is issued  *)
(* only by a click on the manual button.                                   *)
C20_AttemptsCountUpTerminalStays ==
    [][/\ \A c \in chains' \ chains : c.st = "fetch" =>
            \/ c.attempt = 1 /\ ev'.op = "started"
            \/ ev'.op = "fired" /\ [c EXCEPT !.st = "timer", !.attempt = @ - 1,
                                              !.calls = @ - 1] \in chains
       /\ (Ended(ev) /\ ev.c.kind = "images"
              /\ ChainsOf(chains, "images", ev.c.run) = {}
              /\ loads'[ev.c.run] > loads[ev.c.run]) => ev'.op = "click"]_vars

\* the texts that identify a fault
Faults == {HttpError, NetworkError}

\* the fault is kept in the error state or printed by the step
FaultRecorded == error \in Faults \/ \E i \in DOMAIN ev.got : ev.got[i] \in Faults

(* C21: a rejected or non-2xx answer before the last attempt is retried    *)
(* after attempt * base like a not-ready answer; on the last attempt the   *)
(* poller schedules nothing, stops, and the fault is recorded.             *)
C21_FaultRetriedThenRecorded ==
    /\ (ev.op = "scheduled" /\ ev.c.kind = "images") =>
          ev.c.delays[Len(ev.c.delays)] = ev.c.attempt * ImagesBaseDelay
    /\ (ev.op = "scheduled" /\ ev.c.kind = "ocr") =>
          ev.c.delays[Len(ev.c.delays)] = ev.c.attempt * OcrBaseDelay
    /\ (ev.op = "failed" /\ ev.c.kind \in {"images", "ocr", "status"}) =>
          /\ ChainsOf(chains, ev.c.kind, ev.c.run) = {}
          /\ FaultRecorded

(* C22: the image and OCR delays are attempt * 5000 and attempt * 10000    *)
(* for every attempt; the submission delay never exceeds 10000 and never   *)
(* decreases from one attempt to the next.                                 *)
C22_BackoffSchedules ==
    (calc.fn = "delay") =>
        \A i \in DOMAIN calc.delays :
            LET n == calc.from + i - 1 IN
            /\ (calc.variant = "images") => calc.delays[i] = n * ImagesBaseDelay
            /\ (calc.variant = "ocr") => calc.delays[i] = n * OcrBaseDelay
            /\ (calc.variant = "submit") =>
                  /\ calc.delays[i] <= SubmitDelayCap
                  /\ (i > 1) => calc.delays[i] >= calc.delays[i - 1]

\* the submission delays of attempts 1 to 6: the cap is reached at attempt 5
C22_Witness ==
    /\ calc.fn = "delay" /\ calc.variant = "submit" /\ calc.from = 1
    /\ calc.delays = <<1000, 2000, 4000, 8000, 10000, 10000>>

FirstOf(names, ok(_)) ==
    LET hits == {k \in DOMAIN names : ok(names[k])}
    IN IF hits = {} THEN 0 ELSE CHOOSE k \in hits : \A g \in hits : k <= g

EntryOf(ocr, f) == CHOOSE e \in ocr.entries : e.file = f
Present(ocr, f) == Truthy(ocr) /\ \E e \in ocr.entries : e.file = f

(* C25 as stated: the OCR text of the caption at 0-based position i is the *)
(* text of the first entry present among NNN.jpg, NNN.jpeg, NNN.png with   *)
(* NNN = i + 1 on three digits, and empty when none is present.            *)
C25_FirstPresentEntry ==
    (calc.fn = "render" /\ calc.rev = "part_001") =>
        \A i \in DOMAIN calc.all :
            LET names == PossibleFiles(i - 1)
                IsPresent(f) == Present(ocrData, f)
                k == FirstOf(names, IsPresent)
            IN calc.all[i].ocrText = (IF k = 0 THEN <<>> ELSE EntryOf(ocrData, names[k]).text)

(* C25: the OCR text of the caption at 0-based position i is the text of   *)
(* the first entry among NNN.jpg, NNN.jpeg, NNN.png that is present and    *)
(* has has_text set, and empty when there is none.                         *)
C25_FirstEntryWithText ==
    (calc.fn = "render" /\ calc.rev = "part_001") =>
        \A i \in DOMAIN calc.all :
            LET names == PossibleFiles(i - 1)
                IsText(f) == Present(ocrData, f) /\ EntryOf(ocrData, f).has_text
                k == FirstOf(names, IsText)
            IN calc.all[i].ocrText = (IF k = 0 THEN <<>> ELSE EntryOf(ocrData, names[k]).text)

\* 001.jpg is present without text and 001.jpeg has text: the first caption gets the
\* text of 001.jpeg, the others none
C25_Witness ==
    /\ calc.fn = "render" /\ calc.rev = "part_001"
    /\ ocrData = OcrObject({OcrFile("001.jpg", <<>>, FALSE), OcrFile("001.jpeg", <<"B">>, TRUE)})
    /\ Len(calc.all) = 3
    /\ calc.all[1].ocrText = <<"B">> /\ calc.all[2].ocrText = <<>>

\* the posts a revision lists: result.data, or in App.tsx the latestPosts of its items
RECURSIVE LatestPosts(_)
LatestPosts(data) ==
    IF data = <<>> THEN <<>>
    ELSE (IF Head(data).latestPosts.set THEN Head(data).latestPosts.v ELSE <<>>)
         \o LatestPosts(Tail(data))
PostsOf(rev) == IF rev = "App.tsx" THEN LatestPosts(posts.v) ELSE posts.v

(* C26: the caption list has exactly one record per post, in the order of  *)
(* the posts, posts with an empty or missing caption included.             *)
C26_OneCaptionPerPost ==
    (calc.fn = "render" /\ ~calc.threw) =>
        /\ Len(calc.all) = Len(PostsOf(calc.rev))
        /\ \A i \in DOMAIN calc.all :
              /\ calc.all[i].text = OrEmpty(PostsOf(calc.rev)[i].caption)
              /\ calc.all[i].likesCount = OrZero(PostsOf(calc.rev)[i].likesCount)

\* the lower-cased query occurs in the lower-cased text, shortcode or OCR text
QueryIn(c, rev) ==
    LET q == ToLowerCase(searchPostsText) IN
    \/ Includes(ToLowerCase(c.text), q)
    \/ Includes(ToLowerCase(c.shortCode), q)
    \/ rev = "part_001" /\ Includes(ToLowerCase(c.ocrText), q)

(* C27 as stated: with an empty query the filter returns the list          *)
(* unchanged; with any other query it keeps exactly the captions in which  *)
(* the lower-cased query occurs, in order.                                 *)
C27_FilterBySubstring ==
    (calc.fn = "render") =>
        LET Hit(c) == QueryIn(c, calc.rev) IN
        calc.filtered = (IF searchPostsText = <<>> THEN calc.all ELSE SelectSeq(calc.all, Hit))

(* C27: with an empty or all-blank query the filter returns the list       *)
(* unchanged; with any other query it keeps exactly the captions in which  *)
(* the lower-cased query, as typed, occurs in the lower-cased caption      *)
(* text, shortcode or OCR text, in order.                                  *)
C27_FilterBySubstringUnlessBlank ==
    (calc.fn = "render") =>
        LET Hit(c) == QueryIn(c, calc.rev) IN
        calc.filtered = (IF \A i \in DOMAIN searchPostsText : searchPostsText[i] = " "
                         THEN calc.all ELSE SelectSeq(calc.all, Hit))

\* the query 'A' keeps the first of three captions: 'a B' with shortcode 'A'; the
\* second has the code 'B' from its url, the third nothing
C27_Witness ==
    /\ calc.fn = "render" /\ calc.rev = "part_000"
    /\ searchPostsText = <<"A">>
    /\ Len(calc.all) = 3 /\ Len(calc.filtered) = 1
    /\ calc.filtered[1].text = <<"a", " ", "B">>

(* C28: totalPages is the count of filtered records divided by the page    *)
(* size, rounded up (3 for 37 records at 15 a page); page p holds the      *)
(* records at positions (p-1)*size+1 .. min(p*size, count), so the pages   *)
(* 1..totalPages are non-empty and follow one another through the list.    *)
C28_Pagination ==
    (calc.fn = "render") =>
        LET count == Len(calc.filtered)
            size == postsPerPage
            PageOf(p) == getPaginatedCaptions(calc.filtered, size, p).captions
            First(p) == (p - 1) * size + 1
            Last(p) == IF p * size < count THEN p * size ELSE count
        IN /\ calc.totalPages * size >= count
           /\ (calc.totalPages - 1) * size < count \/ (count = 0 /\ calc.totalPages = 0)
           /\ (count = 37 /\ size = 15) => calc.totalPages = 3
           /\ calc.captions = PageOf(currentPage)
           /\ \A p \in 1..calc.totalPages :
                 /\ First(p) <= Last(p)
                 /\ PageOf(p) = [k \in 1..(Last(p) - First(p) + 1) |-> calc.filtered[First(p) + k - 1]]

\* page 3 of 37 records at 15 a page holds the last 7
C28_Witness ==
    /\ calc.fn = "render"
    /\ Len(calc.filtered) = 37 /\ postsPerPage = 15 /\ currentPage = 3
    /\ calc.totalPages = 3 /\ Len(calc.captions) = 7
    /\ calc.captions[7] = calc.filtered[37]

ProfileOf(rev, data) ==
    IF rev = "App.tsx" THEN extractProfileInfoApp(data) ELSE extractProfileInfo(data)

(* C29: the profile is what the first item alone would give; a missing or  *)
(* empty list gives no profile; absent or falsy fields of the first item   *)
(* come out as the empty string, zero or false.                            *)
C29_ProfileFromFirstItem ==
    (calc.fn = "render") =>
        IF ~posts.set \/ posts.v = <<>>
        THEN calc.profile = NoProfile
        ELSE LET first == posts.v[1]
                 name == IF calc.rev = "App.tsx" THEN first.username ELSE first.ownerUsername
                 flag == IF calc.rev = "App.tsx" THEN first.verified ELSE first.ownerIsVerified
             IN /\ calc.profile.set
                /\ calc.profile = ProfileOf(calc.rev, List(<<first>>))
                /\ (~name.set \/ name.v = <<>>) => calc.profile.username = <<>>
                /\ (name.set /\ name.v # <<>>) => calc.profile.username = name.v
                /\ (~flag.set \/ ~flag.v) => calc.profile.verified = FALSE
                /\ (~first.followersCount.set) => calc.profile.followersCount = 0

\* the first post has no field and the second has them all: the profile is all defaults
C29_Witness ==
    /\ calc.fn = "render" /\ calc.rev = "part_001"
    /\ posts = List(<<BarePost, FullPost>>)
    /\ calc.profile.set /\ calc.profile.username = <<>> /\ ~calc.profile.verified
    /\ calc.profile.profilePicUrl = <<>>

(* C24: whenever the caption list is on display, the current page is       *)
(* within 1..max(1, totalPages) of the filtered list.                      *)
C24_PageWithinRange ==
    CaptionsShown =>
        /\ currentPage >= 1
        /\ currentPage <= (IF PageCount > 1 THEN PageCount ELSE 1)

(* C30: an OCR entry is never changed or removed once stored: every entry  *)
(* of ocrData (filename, text, confidence, has_text) is still in ocrData   *)
(* after any step.                                                         *)
C30_OcrEntryImmutable ==
    [][\A e \in ocrData.entries : e \in ocrData'.entries]_vars

(* C31: images and ocrData hold only what was fetched for the run of the   *)
(* result on display: when a submission's answer stores a new result the   *)
(* image list and the OCR entries of earlier runs are gone, and an answer   *)
(* of get-images or get-ocr-results is stored only for the run of result.  *)
C31_StoredDataOfCurrentRun ==
    [][/\ (result'.runId # 0 /\ result' # result) =>
              (images' = <<>> /\ ocrData'.entries = {})
       /\ (ev'.op \in {"succeeded", "loaded"} /\ vars' # vars /\ result'.runId # 0) =>
              result'.runId = ev'.c.run]_vars

(* C32: imagesLoading is false only when no get-images fetch is in flight  *)
(* and no retry timer of the image poller is pending, so the 'load images' *)
(* button is not offered while the poller is between attempts.             *)
ImageWorkPending ==
    \/ \E c \in chains : c.kind = "images" /\ Live(c)
    \/ \E r \in RunIds : loads[r] > 0

C32_NotLoadingMeansNoImageWork == ~imagesLoading => ~ImageWorkPending

(* C33: once the image list of the run is non-empty, no answer of           *)
(* get-images for that run (to the poller, to the loadImages of the OCR     *)
(* success or of the monitor, to a manual reload) makes it empty again.     *)
C33_ImagesNotEmptied ==
    [][(images # <<>> /\ ev'.c.kind = "images" /\ ev'.c.run = result.runId) =>
           images' # <<>>]_vars

(* C34: result and error are never both non-null, in the App form and in   *)
(* the comments scraper form alike: while an error is shown no result of   *)
(* an earlier submission is stored.                                        *)
C34_NeverResultAndError ==
    /\ ~(result.set /\ error # NoError)
    /\ ~(cs_result /\ cs_error # NoError)

(* C35: every start-scrape request issued carries a non-empty cleaned      *)
(* username; an input that is empty after removing '@' and trimming is     *)
(* rejected by the validation and issues no request.                       *)
C35_RequestHasUsername ==
    /\ request.st # "idle" => request.username # <<>>
    /\ ev.op = "submit" /\ ev.c.kind # "scraper" => cleanUsername(ev.got) # <<>>

\* the step is the monitor taking the answer 'completed' of scrape-status for its run
CompletedAnswer ==
    /\ vars' # vars
    /\ ev'.c.kind = "status" /\ ev'.op # "fired"
    /\ scrapeStatus' = Status(ev'.c.run, "completed", scrapeStatus'.images_count)

(* C36: on the answer 'completed' the status monitor of the run ends       *)
(* without scheduling a further poll, whatever the image count; it calls   *)
(* loadImages (one get-images fetch) only when images_count > 0, and with  *)
(* images_count = 0 it issues no image request.                            *)
C36_CompletedStopsMonitor ==
    [][CompletedAnswer =>
          /\ chains' = chains \ {ev'.c}
          /\ ev'.c \in chains
          /\ ocrLoads' = ocrLoads
          /\ IF scrapeStatus'.images_count > 0
             THEN /\ loads' = [loads EXCEPT ![ev'.c.run] = @ + 1]
                  /\ imagesLoading'
             ELSE /\ loads' = loads
                  /\ imagesLoading' = imagesLoading]_vars

\* the monitor has just stopped on completed with no images while the image poller of
\* the run is waiting on its timer: no status poll is left and no loadImages fetch is in
\* flight
C36_Witness ==
    /\ ev.c.kind = "status" /\ ev.op = "completed_empty"
    /\ scrapeStatus = Status(ev.c.run, "completed", 0)
    /\ \A c \in chains : c.kind # "status"
    /\ \E c \in chains : c.kind = "images" /\ c.st = "timer"
    /\ \A r \in RunIds : loads[r] = 0

====
